---- MODULE Spec2Model ----
(***************************************************************************)
(* Timeline / player synchronisation core of cam-viewer.                   *)
(*                                                                         *)
(* Execution model: one JavaScript thread.  A macrotask (DOM event, timer  *)
(* tick, IndexedDB completion) runs only when the microtask queue is       *)
(* empty; the microtasks it queues (watcher bodies after `await 0`, task   *)
(* continuations, Lit updates) run in FIFO order before the next macrotask.*)
(*                                                                         *)
(* Numbers: JavaScript doubles are carried on integer grids.  Pixels and   *)
(* seconds are whole numbers; zoomLevel is carried in units of             *)
(* 1/baseZoomLevel (that is, as pixels per hour), so that                  *)
(* 24 * baseZoomLevel * zoomLevel is a whole number of pixels.  A product  *)
(* or quotient that leaves the grid is truncated to it.                    *)
(***************************************************************************)
EXTENDS Integers, Sequences, FiniteSets, TLC

(***************************************************************************)
(* Bounds of the model                                                     *)
(***************************************************************************)
\* pan / click / zoom-out gestures explored by the timeline specification
MaxGestures == 3
\* keydown listeners a timeline element may have registered on window
MaxListeners == 2
\* segments in the input lists of the coalescing specification
MaxSegs == 3
\* load() calls counted since the observer last ran; more count as MaxLoads
MaxLoads == 2

(***************************************************************************)
(* Program constants                                                       *)
(***************************************************************************)
SECONDS_IN_DAY == 24 * 60 * 60
baseZoomLevel == 100
\* pan step of handleKeyDown
PanStep == 50
\* the value Number.isNaN() recognises; outside every number computed here
NaN == -2147483647

USER == "USER"
PLAYER_COMPONENT == "PLAYER_COMPONENT"
DVR_UI_TIMELINE_COMPONENT == "DVR_UI_TIMELINE_COMPONENT"
TimestampSignalSource == {USER, PLAYER_COMPONENT, DVR_UI_TIMELINE_COMPONENT}

PLAYING == "PLAYING"
PAUSED == "PAUSED"
PlayerState == {PLAYING, PAUSED}

\* document.documentElement.clientWidth at construction of the timeline
Viewports == {0, 1200, 2400}
\* event.key values delivered to handleKeyDown
Keys == {"a", "ArrowLeft", "d", "ArrowRight", "w", "ArrowUp", "s", "ArrowDown", "x"}
\* event.deltaY values delivered to handleWheel
WheelDeltas == {-100, 100}

Max(a, b) == IF a >= b THEN a ELSE b
Min(a, b) == IF a <= b THEN a ELSE b

VARIABLES
    TIMESTAMP_SIG,      \* signals.ts: {value, source}
    PLAYERSTATE_SIG,    \* signals.ts: PlayerState
    pauseWatcher,       \* signals.ts signalWatcher: [watching, dirty]
    tsWatcher,          \* PlayerComponent.signalWatcher: [watching, dirty]
    playWatcher,        \* PlayerComponent.playSignalWatcher: [watching, dirty]
    microtasks,         \* FIFO of pending microtasks
    clientWidth,        \* document.documentElement.clientWidth
    zoomLevel,          \* TimelineComponent.zoomLevel (units of 1/baseZoomLevel)
    timelineWidth,      \* TimelineComponent.timelineWidth (pixels)
    leftOffset,         \* TimelineComponent.leftOffset (pixels)
    keyboard,           \* the timeline element: is it connected, and how many
                        \* of its keydown listeners window holds
    player,             \* PlayerComponent fields
    video,              \* the <video> element behind playerRef
    getVideosOfDay,     \* PlayerComponent.getVideosOfDay task
    buildVideoPlayer,   \* PlayerComponent.buildVideoPlayer task
    dvr,                \* DvrUI fields and its timeline task
    CAM_DB,             \* cam-videos.ts: CAM_DB.videoFiles, by camName
    VIDEOS_LOADED,      \* cam-videos.ts: has VIDEOS_LOADED.resolve() been
                        \* called, i.e. has bulkAdd completed
    intervals,          \* number of live window.setInterval timers of the
                        \* player component
    swap,               \* whether signalWatcher last saw the playhead leave
                        \* the segment, load() calls since (observation only)
    coalesceIn,         \* input of the coalescing loop (sorted videos)
    coalesceOut,        \* its output (time ranges), <<>> until it has run
    gestures,           \* number of bounded gestures made so far
    lastOp              \* what the last step did (observation only)

sigVars == <<TIMESTAMP_SIG, PLAYERSTATE_SIG, pauseWatcher, tsWatcher, playWatcher>>
timelineVars == <<clientWidth, zoomLevel, timelineWidth, leftOffset, keyboard>>
playerVars == <<player, video, getVideosOfDay, buildVideoPlayer>>
coalesceVars == <<coalesceIn, coalesceOut>>

vars == <<TIMESTAMP_SIG, PLAYERSTATE_SIG, pauseWatcher, tsWatcher, playWatcher,
          microtasks, clientWidth, zoomLevel, timelineWidth, leftOffset,
          keyboard,
          player, video, getVideosOfDay, buildVideoPlayer, dvr, CAM_DB,
          VIDEOS_LOADED, intervals, swap,
          coalesceIn, coalesceOut, gestures, lastOp>>

\* name of the step, the branch it took, the calls it made on the <video>
\* element and the number it was given
Op(name, tag, calls, arg) ==
    [name |-> name, tag |-> tag, calls |-> calls, arg |-> arg]

\* a queued microtask; args/videos/latest/result are the values its closure
\* captured, args being <<selectedCameraId, selectedDate>>
Task(kind, args, videos, latest, result) ==
    [kind |-> kind, args |-> args, videos |-> videos, latest |-> latest,
     result |-> result]
Job(kind) == Task(kind, <<>>, <<>>, TRUE, "")

(***************************************************************************)
(* signals.ts: the shared signals and the pause-on-scrub watcher           *)
(***************************************************************************)
\* a set() that notifies nobody
NotifiedNobody(name, watcher) == <<>>

\* Signal.State.set notifies every watcher that watches the signal and has
\* not been notified since its last watch(); the async notify callback runs
\* up to its `await 0`, which queues the rest of its body as a microtask.
Notified(name, watcher) ==
    IF watcher.watching /\ ~watcher.dirty THEN <<Job(name)>> ELSE <<>>

MarkDirty(watcher) ==
    IF watcher.watching THEN [watcher EXCEPT !.dirty = TRUE] ELSE watcher

\* a watch() that does not re-arm a watcher that has been notified
WatchKeepsDirty(watcher) == [watching |-> TRUE, dirty |-> watcher.dirty]

\* Watcher.watch(signal): start watching and allow the next notification
Watch(watcher) == [watching |-> TRUE, dirty |-> FALSE]
Unwatch(watcher) == [watching |-> FALSE, dirty |-> FALSE]

\* the switch with its DVR_UI_TIMELINE_COMPONENT label removed
ForcesPauseUserOnly(source) == source = USER

\* the case labels of the watcher's switch that set PLAYERSTATE_SIG
ForcesPause(source) == source \in {USER, DVR_UI_TIMELINE_COMPONENT}

\* the switch with the `break` of PLAYER_COMPONENT removed: it falls through
PlayerStateAfterFallThrough(source, state) == PAUSED

\* PLAYERSTATE_SIG when the watcher's switch is left
PlayerStateAfter(source, state) == IF ForcesPause(source) THEN PAUSED ELSE state

(***************************************************************************)
(* timeline-component.ts: geometry                                         *)
(***************************************************************************)
\* one unit of the zoomLevel variable is 1/ZoomUnit of zoom
ZoomUnit == baseZoomLevel

minZoomLevel == ((clientWidth * ZoomUnit) \div 24) \div baseZoomLevel
maxZoomLevel == (clientWidth * ZoomUnit * 6) \div baseZoomLevel

\* 24 * this.baseZoomLevel * zoom
TimelineWidthOf(zoom) == (24 * baseZoomLevel * zoom) \div ZoomUnit

\* zoomFactor * this.zoomLevel, the factor given in tenths (1.1 -> 11)
ScaleZoom(tenths, zoom) == (tenths * zoom) \div 10

\* the clamp without its lower limit
ClampZoomNoLower(newZoomLevel) == Min(maxZoomLevel, newZoomLevel)

\* Math.max(this.minZoomLevel, Math.min(this.maxZoomLevel, newZoomLevel))
ClampZoom(newZoomLevel) == Max(minZoomLevel, Min(maxZoomLevel, newZoomLevel))

\* the early exit never taken
ZoomNeverUnchanged(originalZoomLevel, clampedNewZoomLevel) == FALSE

\* originalZoomLevel === clampedNewZoomLevel
ZoomUnchanged(originalZoomLevel, clampedNewZoomLevel) ==
    originalZoomLevel = clampedNewZoomLevel

\* width * (value / SECONDS_IN_DAY); width is a multiple of 24 pixels
PixelOfTime(width, value) ==
    ((width \div 24) * value) \div (SECONDS_IN_DAY \div 24)

\* Math.min(maxOffset, Math.max(0, newLeftOffset)),
\* maxOffset = Math.max(0, timelineWidth - containerWidth)
ClampOffset(newLeftOffset, width, containerWidth) ==
    Min(Max(0, width - containerWidth), Max(0, newLeftOffset))

\* this.timelineContainerRef.value?.clientWidth: the container spans the page
containerWidth == clientWidth

\* the new offset computed from the strip positions alone, without the
\* scroll offset the view had before the zoom
UnclampedLeftOffsetNoScroll(clampedNewZoomLevel) ==
    PixelOfTime(TimelineWidthOf(clampedNewZoomLevel), TIMESTAMP_SIG.value)
        - PixelOfTime(TimelineWidthOf(zoomLevel), TIMESTAMP_SIG.value)

\* absolutePosAfter - visualPosInContainer, before it is clamped
UnclampedLeftOffset(clampedNewZoomLevel) ==
    LET originalTimelineWidth == TimelineWidthOf(zoomLevel)
        absolutePosBefore == PixelOfTime(originalTimelineWidth, TIMESTAMP_SIG.value)
        visualPosInContainer == absolutePosBefore - leftOffset
        absolutePosAfter ==
            PixelOfTime(TimelineWidthOf(clampedNewZoomLevel), TIMESTAMP_SIG.value)
    IN  absolutePosAfter - visualPosInContainer

\* handleZoom(newZoomLevel): the writes to the three @state fields
handleZoom(newZoomLevel) ==
    LET clampedNewZoomLevel == ClampZoom(newZoomLevel)
    IN  IF containerWidth = 0 \/ ZoomUnchanged(zoomLevel, clampedNewZoomLevel)
        THEN UNCHANGED <<zoomLevel, timelineWidth, leftOffset>>
        ELSE /\ zoomLevel' = clampedNewZoomLevel
             /\ timelineWidth' = TimelineWidthOf(clampedNewZoomLevel)
             /\ leftOffset' = ClampOffset(UnclampedLeftOffset(clampedNewZoomLevel),
                                          TimelineWidthOf(clampedNewZoomLevel),
                                          containerWidth)

\* event.deltaY > 0 ? 0.9 : 1.1, in tenths
WheelFactor(deltaY) == IF deltaY > 0 THEN 9 ELSE 11

\* this.leftOffset -= 50 / this.leftOffset += 50
\* window.addEventListener("keydown", this.handleKeyDown.bind(this))
AddEventListener(registered) == registered + 1

\* window.removeEventListener("keydown", this.handleKeyDown.bind(this)): the
\* argument is a function made by this call, which was never registered
RemoveEventListener(registered) == registered

PanLeft(offset) == offset - PanStep
PanRight(offset) == offset + PanStep

\* totalSecondsInDay * Math.min(1.0, Math.max(0.0, actualOffset / timelineWidth));
\* 0/0 is NaN and stays NaN through Math.max and Math.min, x/0 is +-Infinity
TempPlayerTime(actualOffset, width) ==
    IF width = 0
    THEN IF actualOffset = 0 THEN NaN
         ELSE IF actualOffset > 0 THEN SECONDS_IN_DAY ELSE 0
    ELSE IF actualOffset <= 0 THEN 0
         ELSE IF actualOffset >= width THEN SECONDS_IN_DAY
         ELSE ((SECONDS_IN_DAY \div 24) * actualOffset) \div (width \div 24)

\* the computed time written without the Number.isNaN test
SeekValueUnchecked(tempPlayerTime) == tempPlayerTime

\* Number.isNaN(tempPlayerTime) ? 0.0 : tempPlayerTime
SeekValue(tempPlayerTime) == IF tempPlayerTime = NaN THEN 0 ELSE tempPlayerTime

\* event.clientX of a click on the timeline container
ClickXs == {x \in {0, 1, 3, 6, clientWidth - 1} : x = 0 \/ (0 < x /\ x < clientWidth)}

(***************************************************************************)
(* cam-videos.ts: the video table                                          *)
(***************************************************************************)
\* the <input type="date"> values of the model and the epoch of their midnight
Days == {"d1", "d2"}
DayEpoch(day) == IF day = "d1" THEN 0 ELSE SECONDS_IN_DAY

\* the value of a date input that has been cleared: it parses to no date
ClearedDate == ""

\* DateTime.fromFormat(selectedDate, "yyyy-MM-dd").isValid
IsValid(selectedDate) == selectedDate \in Days

\* the camName values of the model; NoCamera is the initial selectedCameraId,
\* which names no camera
Cameras == {"cam1", "cam2"}
NoCamera == ""

\* parsedVideoStart.plus({ minutes: 1 })
VideoLength == 60

\* Math.abs
Abs(x) == IF x < 0 THEN 0 - x ELSE x

\* the row PushCamDataToDatabase stores for a video listed under `day` that
\* starts `offset` seconds after the start of that day (before it when
\* offset < 0): videoEnd is the start plus one minute, and the day-relative
\* fields are Math.abs of parsedDate.diff(...) in seconds
Video(day, offset) ==
    LET parsedDate == DayEpoch(day)
        parsedVideoStart == DayEpoch(day) + offset
        videoEnd == parsedVideoStart + VideoLength
    IN  [vidStartEpoch |-> parsedVideoStart,
         vidEndEpoch   |-> videoEnd,
         vidDayStart   |-> Abs(parsedDate - parsedVideoStart),
         vidDayEnd     |-> Abs(parsedDate - videoEnd),
         filePath      |-> <<day, offset>>]

\* the recordings of a camera as the server lists them, in vidStartEpoch
\* order
Recordings ==
    <<Video("d1", 0), Video("d1", 60), Video("d1", 200), Video("d2", 100)>>

\* the recordings of the second camera: one video, overlapping the first
\* camera's first one
OtherRecordings ==
    <<[Video("d1", 30) EXCEPT !.filePath = <<"cam2", "d1", 30>>]>>

\* what PushCamDataToDatabase can have stored: the recordings of the two
\* cameras, or nothing when the server lists none
Databases ==
    {[camName \in Cameras |->
         IF camName = "cam1" THEN Recordings ELSE OtherRecordings],
     [camName \in Cameras |-> <<>>]}

\* videoFiles.where("camName").equals(camName).sortBy("vidStartEpoch")
VideoFilesOf(camName) ==
    IF camName \in Cameras THEN CAM_DB[camName] ELSE <<>>

\* the keys eachUniqueKey() visits in orderBy("camName") order
CamNames ==
    IF CAM_DB["cam1"] # <<>> THEN <<"cam1", "cam2">> ELSE <<>>

\* the empty string of oldVideoRef / currentVideoRef
NoRef == <<>>

\* Task.value after a run that threw: `undefined`, which is no list of videos
Undefined == <<[undefined |-> TRUE]>>

\* Collection.sortBy("vidDayStart"): ascending, rows with equal keys in the
\* order of the collection
RECURSIVE SortByDayStart(_)
SortByDayStart(videos) ==
    IF videos = <<>>
    THEN <<>>
    ELSE LET first == Head(videos)
             rest == SortByDayStart(Tail(videos))
         IN  SelectSeq(rest, LAMBDA v : v.vidDayStart < first.vidDayStart)
               \o <<first>>
               \o SelectSeq(rest, LAMBDA v : v.vidDayStart >= first.vidDayStart)

\* the filter and sort of the getVideosOfDay query for
\* args = <<selectedCameraId, selectedDate>>
VideosOfDay(args) ==
    SortByDayStart(
        SelectSeq(VideoFilesOf(args[1]),
                  LAMBDA v : /\ DayEpoch(args[2]) <= v.vidStartEpoch
                             /\ v.vidEndEpoch <= DayEpoch(args[2]) + SECONDS_IN_DAY))

(***************************************************************************)
(* dvr-ui.ts: coalescing loop of buildTimelineTask                         *)
(***************************************************************************)
\* createNewTimeRange(video)
CreateNewTimeRange(v) == [start |-> v.vidStartEpoch, end |-> v.vidEndEpoch]

\* currentTimeRange.end.equals(parsedCurrentRange.start)
RangeContinues(currentTimeRange, parsedCurrentRange) ==
    currentTimeRange.end = parsedCurrentRange.start

\* the for loop over allVideos.val followed by the push of the open range;
\* current is <<>> while currentTimeRange is undefined
RECURSIVE CoalesceLoop(_, _, _)
CoalesceLoop(videos, current, timeRanges) ==
    IF videos = <<>>
    THEN timeRanges \o current
    ELSE LET parsedCurrentRange == CreateNewTimeRange(Head(videos))
         IN  IF current = <<>>
             THEN CoalesceLoop(Tail(videos), <<parsedCurrentRange>>, timeRanges)
             ELSE IF RangeContinues(current[1], parsedCurrentRange)
             THEN CoalesceLoop(Tail(videos),
                               <<[current[1] EXCEPT !.end = parsedCurrentRange.end]>>,
                               timeRanges)
             ELSE CoalesceLoop(Tail(videos), <<parsedCurrentRange>>,
                               Append(timeRanges, current[1]))

Coalesce(videos) == CoalesceLoop(videos, <<>>, <<>>)

\* checkTimestampInRange(range) for the selected day
CheckTimestampInRange(range, day) ==
    /\ range.start - DayEpoch(day) <= TIMESTAMP_SIG.value
    /\ TIMESTAMP_SIG.value <= range.end - DayEpoch(day)

\* timestampIsValid when the loop and the push of the open range are done,
\* for args = <<selectedCameraId, selectedDate>>
TimestampIsValid(args) ==
    \E i \in DOMAIN Coalesce(VideoFilesOf(args[1])) :
        CheckTimestampInRange(Coalesce(VideoFilesOf(args[1]))[i], args[2])

\* the first range's start without the subtraction of the selected day
TimelineTsOfEpoch(args) ==
    LET timeRanges == Coalesce(VideoFilesOf(args[1]))
    IN  IF Len(timeRanges) > 0 THEN timeRanges[1].start ELSE 0

\* the value buildTimelineTask writes to TIMESTAMP_SIG
TimelineTs(args) ==
    LET timeRanges == Coalesce(VideoFilesOf(args[1]))
    IN  IF Len(timeRanges) > 0
        THEN timeRanges[1].start - DayEpoch(args[2]) ELSE 0

(***************************************************************************)
(* Event loop and signal writes                                            *)
(***************************************************************************)
\* a macrotask starts only when every microtask has run
Idle == microtasks = <<>>
NextIs(kind) == microtasks # <<>> /\ Head(microtasks).kind = kind

\* a set() that assigns the value into the object the signal already holds
SetTimestampValueOnly(value, source, q) ==
    /\ TIMESTAMP_SIG' = [TIMESTAMP_SIG EXCEPT !.value = value]
    /\ microtasks' = q \o Notified("pauseWatcher", pauseWatcher)
                       \o Notified("tsWatcher", tsWatcher)
    /\ pauseWatcher' = MarkDirty(pauseWatcher)
    /\ tsWatcher' = MarkDirty(tsWatcher)

\* TIMESTAMP_SIG.set({value, source}) with q the microtasks queued so far
SetTimestamp(value, source, q) ==
    /\ TIMESTAMP_SIG' = [value |-> value, source |-> source]
    /\ microtasks' = q \o Notified("pauseWatcher", pauseWatcher)
                       \o Notified("tsWatcher", tsWatcher)
    /\ pauseWatcher' = MarkDirty(pauseWatcher)
    /\ tsWatcher' = MarkDirty(tsWatcher)

\* the microtasks PLAYERSTATE_SIG.set(state) queues: a set of the value the
\* signal already holds notifies nobody
PlayerStateNotified(state) ==
    IF state = PLAYERSTATE_SIG THEN <<>> ELSE Notified("playWatcher", playWatcher)

\* Task.run(): runs that are still in flight are no longer the latest call
Supersede(q, kinds) ==
    [i \in DOMAIN q |->
        IF q[i].kind \in kinds THEN [q[i] EXCEPT !.latest = FALSE] ELSE q[i]]

\* host.requestUpdate() of the player: one update microtask at a time
UpdateJob(pending) == IF pending THEN <<>> ELSE <<Job("update")>>

(***************************************************************************)
(* Initial state                                                           *)
(***************************************************************************)
Constructed ==
    /\ TIMESTAMP_SIG = [value |-> 0, source |-> USER]
    /\ PLAYERSTATE_SIG = PAUSED
    /\ pauseWatcher = [watching |-> TRUE, dirty |-> FALSE]
    /\ tsWatcher = [watching |-> FALSE, dirty |-> FALSE]
    /\ playWatcher = [watching |-> FALSE, dirty |-> FALSE]
    /\ microtasks = <<>>
    /\ clientWidth \in Viewports
    /\ leftOffset = 0
    \* the timeline element is in the page: its connectedCallback has run once
    /\ keyboard = [connected |-> TRUE, listeners |-> 1]
    /\ player = [selectedDate |-> "d1", selectedCameraId |-> NoCamera,
                 playerRef |-> FALSE,
                 oldVideoRef |-> NoRef, currentVideoRef |-> NoRef,
                 videoStart |-> 0, videoEnd |-> 0,
                 lastVideoTemplate |-> FALSE, requestUpdateRef |-> FALSE,
                 updatePending |-> FALSE, disconnected |-> FALSE]
    /\ video = [paused |-> TRUE, currentTime |-> 0, canplay |-> FALSE,
                ready |-> FALSE]
    /\ getVideosOfDay = [status |-> "INITIAL", value |-> <<>>,
                         prevArgs |-> <<>>, query |-> <<>>]
    /\ buildVideoPlayer = [status |-> "INITIAL", value |-> "",
                           prevArgs |-> <<>>, stale |-> FALSE]
    /\ dvr = [selectedDate |-> "d1", selectedCameraId |-> NoCamera,
              mounted |-> FALSE, updatePending |-> FALSE,
              prevArgs |-> <<>>, timelineRuns |-> {},
              camNamesQuery |-> FALSE, cameraEnabled |-> FALSE,
              initialFetch |-> "PENDING"]
    /\ CAM_DB \in Databases
    /\ intervals = 0
    /\ swap = [crossing |-> FALSE, loads |-> 0]
    /\ coalesceIn = <<>>
    /\ coalesceOut = <<>>
    /\ gestures = 0
    /\ lastOp = Op("Init", "", <<>>, 0)

\* PushCamDataToDatabase has stored the server's list, and _initialFetch,
\* which awaits it, is about to complete
Init ==
    /\ Constructed
    /\ VIDEOS_LOADED = TRUE
    /\ zoomLevel = minZoomLevel
    /\ timelineWidth = 2400

(***************************************************************************)
(* timeline-component.ts: event handlers                                   *)
(***************************************************************************)
handleMouseDown(clientX) ==
    LET width == TimelineWidthOf(zoomLevel)
        actualOffset == clientX + leftOffset
        tempPlayerTime == TempPlayerTime(actualOffset, width)
    IN  /\ Idle
        /\ SetTimestamp(SeekValue(tempPlayerTime), USER, <<>>)
        /\ lastOp' = Op("handleMouseDown",
                        IF tempPlayerTime = NaN THEN "NaN" ELSE "number", <<>>,
                        clientX)
        /\ UNCHANGED <<PLAYERSTATE_SIG, playWatcher, timelineVars, playerVars,
                       dvr, CAM_DB, VIDEOS_LOADED, intervals, swap, coalesceVars>>

handleWheel(deltaY) ==
    /\ Idle
    /\ handleZoom(ScaleZoom(WheelFactor(deltaY), zoomLevel))
    /\ lastOp' = Op("handleZoom",
                    IF zoomLevel' = zoomLevel THEN "noop" ELSE "zoomed", <<>>,
                    ScaleZoom(WheelFactor(deltaY), zoomLevel))
    /\ UNCHANGED <<sigVars, microtasks, clientWidth, keyboard, playerVars, dvr, CAM_DB, VIDEOS_LOADED, intervals,
                   swap, coalesceVars>>

handleKeyDown(key) ==
    /\ Idle
    /\ CASE key \in {"a", "ArrowLeft"} ->
              /\ leftOffset' = PanLeft(leftOffset)
              /\ UNCHANGED <<zoomLevel, timelineWidth>>
              /\ lastOp' = Op("pan", "left", <<>>, 0)
         [] key \in {"d", "ArrowRight"} ->
              /\ leftOffset' = PanRight(leftOffset)
              /\ UNCHANGED <<zoomLevel, timelineWidth>>
              /\ lastOp' = Op("pan", "right", <<>>, 0)
         [] key \in {"w", "ArrowUp"} ->
              /\ handleZoom(ScaleZoom(11, zoomLevel))
              /\ lastOp' = Op("handleZoom",
                              IF zoomLevel' = zoomLevel THEN "noop" ELSE "zoomed",
                              <<>>, ScaleZoom(11, zoomLevel))
         [] key \in {"s", "ArrowDown"} ->
              /\ handleZoom(ScaleZoom(9, zoomLevel))
              /\ lastOp' = Op("handleZoom",
                              IF zoomLevel' = zoomLevel THEN "noop" ELSE "zoomed",
                              <<>>, ScaleZoom(9, zoomLevel))
         [] OTHER ->
              /\ UNCHANGED <<zoomLevel, timelineWidth, leftOffset>>
              /\ lastOp' = Op("handleKeyDown", "ignored", <<>>, 0)
    /\ UNCHANGED <<sigVars, microtasks, clientWidth, keyboard, playerVars, dvr, CAM_DB, VIDEOS_LOADED, intervals,
                   swap, coalesceVars>>

(***************************************************************************)
(* signals.ts: body of the pause-on-scrub watcher, after `await 0`         *)
(***************************************************************************)
PauseWatcherRun ==
    /\ NextIs("pauseWatcher")
    /\ LET pause == ForcesPause(TIMESTAMP_SIG.source)
       IN  /\ PLAYERSTATE_SIG' = PlayerStateAfter(TIMESTAMP_SIG.source,
                                                  PLAYERSTATE_SIG)
           /\ microtasks' = Tail(microtasks) \o
                  (IF pause THEN PlayerStateNotified(PAUSED) ELSE <<>>)
           /\ playWatcher' = IF pause /\ PLAYERSTATE_SIG # PAUSED
                             THEN MarkDirty(playWatcher) ELSE playWatcher
           /\ lastOp' = Op("pauseWatcher", TIMESTAMP_SIG.source, <<>>, 0)
    /\ pauseWatcher' = Watch(pauseWatcher)
    /\ UNCHANGED <<TIMESTAMP_SIG, tsWatcher, timelineVars, playerVars, dvr,
                   CAM_DB, VIDEOS_LOADED, intervals, swap, coalesceVars, gestures>>

(***************************************************************************)
(* player-buttons.ts                                                       *)
(***************************************************************************)
handlePlayClick ==
    /\ Idle
    /\ dvr.mounted
    /\ PLAYERSTATE_SIG' = IF PLAYERSTATE_SIG = PLAYING THEN PAUSED ELSE PLAYING
    /\ microtasks' = Notified("playWatcher", playWatcher)
    /\ playWatcher' = MarkDirty(playWatcher)
    /\ lastOp' = Op("handlePlayClick", "", <<>>, 0)
    /\ UNCHANGED <<TIMESTAMP_SIG, pauseWatcher, tsWatcher, timelineVars,
                   playerVars, dvr, CAM_DB, VIDEOS_LOADED, intervals, swap, coalesceVars, gestures>>

(***************************************************************************)
(* player-component.ts                                                     *)
(***************************************************************************)
\* this.videoStart <= value && value < this.videoEnd
timestampWithinVideo ==
    /\ player.videoStart <= TIMESTAMP_SIG.value
    /\ TIMESTAMP_SIG.value < player.videoEnd

\* the seek branch taken whatever the source of the write
SeekPathAnySource == timestampWithinVideo /\ player.playerRef

\* the condition of the seek branch of signalWatcher
SeekPath ==
    /\ timestampWithinVideo
    /\ player.playerRef
    /\ TIMESTAMP_SIG.source # PLAYER_COMPONENT

\* assignment to video.currentTime: the element keeps the position inside
\* the media
SetPosition(position) == Max(0, Min(VideoLength, position))

\* the position without the subtraction of videoStart
SeekTargetOfDay == SetPosition(TIMESTAMP_SIG.value)

\* currentTime = TIMESTAMP_SIG.get().value - this.videoStart
SeekTarget == SetPosition(TIMESTAMP_SIG.value - player.videoStart)

\* positions the element reports while it plays
PlayPositions == {30, VideoLength}

\* the find with a window closed at its end
FindVideoClosedEnd(dayVideos, playerTime) ==
    LET hits == SelectSeq(dayVideos,
                          LAMBDA v : /\ v.vidDayStart <= playerTime
                                     /\ playerTime <= v.vidDayEnd)
    IN  IF hits = <<>> THEN <<>> ELSE <<Head(hits)>>

\* dayVideos.find(v => v.vidDayStart <= playerTime && playerTime < v.vidDayEnd):
\* <<>> when undefined, else the one entry
FindVideo(dayVideos, playerTime) ==
    LET hits == SelectSeq(dayVideos,
                          LAMBDA v : /\ v.vidDayStart <= playerTime
                                     /\ playerTime < v.vidDayEnd)
    IN  IF hits = <<>> THEN <<>> ELSE <<Head(hits)>>

\* the first two elements of the args of the player's tasks
PlayerArgs == <<player.selectedCameraId, player.selectedDate>>

\* buildVideoPlayer.run([...]) up to the task's `await VIDEOS_LOADED`:
\* the microtasks it leaves on queue q
BuildRunJobs(q, args, dayVideos) ==
    Supersede(q, {"buildTask", "buildDone"})
        \o UpdateJob(player.updatePending)
        \o <<Task("buildTask", args, dayVideos, TRUE, "")>>

BuildPending(args) ==
    [buildVideoPlayer EXCEPT !.status = "PENDING", !.prevArgs = args,
                             !.stale = FALSE]

\* the observer finds the playhead outside the window of the attached
\* segment while the segments of the selected day are known
LeavesSegment ==
    /\ ~timestampWithinVideo
    /\ player.playerRef
    /\ getVideosOfDay.status = "COMPLETE"
    /\ getVideosOfDay.prevArgs = PlayerArgs

\* body of signalWatcher after `await 0`
TsWatcherRun ==
    /\ NextIs("tsWatcher")
    /\ video' = IF SeekPath
                THEN [video EXCEPT !.paused = TRUE,
                                   !.currentTime = SeekTarget,
                                   \* a seek on a ready element ends with
                                   \* another canplay event
                                   !.canplay = @ \/ video.ready]
                ELSE video
    /\ tsWatcher' = Watch(tsWatcher)
    /\ swap' = [crossing |-> LeavesSegment, loads |-> 0]
    /\ IF timestampWithinVideo
       THEN /\ microtasks' = Tail(microtasks)
            /\ UNCHANGED <<player, buildVideoPlayer>>
       ELSE /\ microtasks' = BuildRunJobs(Tail(microtasks), PlayerArgs,
                                          getVideosOfDay.value)
            /\ buildVideoPlayer' = BuildPending(PlayerArgs)
            /\ player' = [player EXCEPT !.updatePending = TRUE]
    /\ lastOp' = Op("tsWatcher", TIMESTAMP_SIG.source,
                    IF SeekPath THEN <<"pause", "currentTime">> ELSE <<>>, 0)
    /\ UNCHANGED <<TIMESTAMP_SIG, PLAYERSTATE_SIG, pauseWatcher, playWatcher,
                   timelineVars, getVideosOfDay, dvr, CAM_DB, VIDEOS_LOADED, intervals, coalesceVars,
                   gestures>>

\* body of playSignalWatcher after `await 0`
PlayWatcherRun ==
    /\ NextIs("playWatcher")
    /\ IF player.playerRef
       THEN /\ video' = [video EXCEPT !.paused = (PLAYERSTATE_SIG # PLAYING)]
            /\ microtasks' = Tail(microtasks)
            /\ lastOp' = Op("playWatcher", PLAYERSTATE_SIG,
                            IF PLAYERSTATE_SIG = PLAYING THEN <<"play">>
                            ELSE <<"pause">>, 0)
            /\ UNCHANGED PLAYERSTATE_SIG
       ELSE /\ PLAYERSTATE_SIG' = PAUSED
            /\ microtasks' = Tail(microtasks) \o PlayerStateNotified(PAUSED)
            /\ lastOp' = Op("playWatcher", "detached", <<>>, 0)
            /\ UNCHANGED video
    /\ playWatcher' = Watch(playWatcher)
    /\ UNCHANGED <<TIMESTAMP_SIG, pauseWatcher, tsWatcher, timelineVars, player,
                   getVideosOfDay, buildVideoPlayer, dvr, CAM_DB, VIDEOS_LOADED, intervals, swap,
                   coalesceVars, gestures>>

\* the tick publishing whenever a <video> is attached
TickPublishesAlways == player.playerRef

\* the two conditions under which the setInterval callback writes
\* requestAnimationFrame() without its early return
SetIntervalUnguarded(timer) == [ref |-> TRUE, live |-> timer.live + 1]

\* requestAnimationFrame(): nothing when requestUpdateRef holds a timer, else
\* window.setInterval creates one and requestUpdateRef holds it
SetInterval(timer) ==
    IF timer.ref THEN timer ELSE [ref |-> TRUE, live |-> timer.live + 1]

\* the timer part of disconnectedCallback(): window.clearInterval of the timer
\* requestUpdateRef holds, and requestUpdateRef = None
ClearInterval(timer) ==
    IF timer.ref THEN [ref |-> FALSE, live |-> timer.live - 1] ELSE timer

\* requestUpdateRef and the live intervals it is about
Timer == [ref |-> player.requestUpdateRef, live |-> intervals]

TickPublishes ==
    /\ player.playerRef
    /\ player.videoStart + video.currentTime # TIMESTAMP_SIG.value

\* the setInterval callback of requestAnimationFrame()
IntervalTick ==
    /\ Idle
    /\ player.requestUpdateRef
    /\ LET currentTime == player.videoStart + video.currentTime
       IN  IF TickPublishes
           THEN /\ SetTimestamp(currentTime, PLAYER_COMPONENT, <<>>)
                /\ lastOp' = Op("interval", "write", <<>>, currentTime)
           ELSE /\ lastOp' = Op("interval", "skip", <<>>, 0)
                /\ UNCHANGED <<TIMESTAMP_SIG, pauseWatcher, tsWatcher, microtasks>>
    /\ UNCHANGED <<PLAYERSTATE_SIG, playWatcher, timelineVars, playerVars, dvr,
                   CAM_DB, VIDEOS_LOADED, intervals, swap, coalesceVars, gestures>>

\* the element advances its position while it plays a loaded resource
VideoProgress ==
    /\ Idle
    /\ ~video.paused
    /\ video.ready
    /\ \E position \in PlayPositions :
          /\ position > video.currentTime
          /\ video' = [video EXCEPT !.currentTime = position]
    /\ lastOp' = Op("timeupdate", "", <<>>, 0)
    /\ UNCHANGED <<sigVars, microtasks, timelineVars, player, getVideosOfDay,
                   buildVideoPlayer, dvr, CAM_DB, VIDEOS_LOADED, intervals, swap, coalesceVars, gestures>>

\* handleCanPlay without its switch on PLAYERSTATE_SIG
ResumesOnCanPlayAlways == player.playerRef

\* the PLAYING case of handleCanPlay and the `?.` on playerRef.value
ResumesOnCanPlay == PLAYERSTATE_SIG = PLAYING /\ player.playerRef

\* the canplay event of the element and handleCanPlay
handleCanPlay ==
    /\ Idle
    /\ video.canplay
    /\ LET resume == ResumesOnCanPlay
       IN  /\ video' = [video EXCEPT !.canplay = FALSE, !.ready = TRUE,
                                     !.paused = IF resume THEN FALSE ELSE @]
           /\ lastOp' = Op("handleCanPlay", PLAYERSTATE_SIG,
                           IF resume THEN <<"play">> ELSE <<>>, 0)
    /\ UNCHANGED <<sigVars, microtasks, timelineVars, player, getVideosOfDay,
                   buildVideoPlayer, dvr, CAM_DB, VIDEOS_LOADED, intervals, swap, coalesceVars, gestures>>

\* the page drops <dvr-ui> and with it the player: disconnectedCallback.
\* The tasks and queries in flight still complete, and an element taken out
\* of the document is paused by the browser.
disconnectedCallback ==
    /\ Idle
    /\ dvr.mounted
    /\ tsWatcher' = Unwatch(tsWatcher)
    /\ player' = [player EXCEPT !.requestUpdateRef = ClearInterval(Timer).ref,
                                !.disconnected = TRUE]
    /\ intervals' = ClearInterval(Timer).live
    /\ video' = [video EXCEPT !.paused = TRUE]
    /\ dvr' = [dvr EXCEPT !.mounted = FALSE]
    /\ lastOp' = Op("disconnectedCallback", "", <<>>, 0)
    /\ UNCHANGED <<TIMESTAMP_SIG, PLAYERSTATE_SIG, pauseWatcher, playWatcher,
                   microtasks, timelineVars, getVideosOfDay, buildVideoPlayer,
                   CAM_DB, VIDEOS_LOADED, swap, coalesceVars, gestures>>

\* getVideosOfDay after `await VIDEOS_LOADED`: the day query is sent, or,
\* for a date that does not parse, the run returns [] and completes
DayTaskRun ==
    /\ NextIs("dayTask")
    /\ LET job == Head(microtasks)
       IN  IF IsValid(job.args[2])
           THEN /\ microtasks' = Tail(microtasks)
                /\ getVideosOfDay' =
                      IF job.latest
                      THEN [getVideosOfDay EXCEPT !.query = job.args]
                      ELSE getVideosOfDay
                /\ lastOp' = Op("getVideosOfDay", "query", <<>>, 0)
                /\ UNCHANGED <<player, buildVideoPlayer>>
           ELSE /\ player' = [player EXCEPT
                      !.lastVideoTemplate = FALSE,
                      !.updatePending = IF job.latest THEN TRUE ELSE @]
                /\ getVideosOfDay' =
                      IF job.latest
                      THEN [getVideosOfDay EXCEPT !.status = "COMPLETE",
                                                  !.value = <<>>]
                      ELSE getVideosOfDay
                /\ buildVideoPlayer' =
                      IF job.latest
                      THEN [buildVideoPlayer EXCEPT !.stale = TRUE]
                      ELSE buildVideoPlayer
                /\ microtasks' = Tail(microtasks) \o
                      (IF job.latest THEN UpdateJob(player.updatePending)
                       ELSE <<>>)
                /\ lastOp' = Op("getVideosOfDay", "invalid", <<>>, 0)
    /\ UNCHANGED <<sigVars, timelineVars, video, dvr, CAM_DB, VIDEOS_LOADED, intervals, swap,
                   coalesceVars, gestures>>

\* the day query answers and the latest run of getVideosOfDay completes
GetVideosDone ==
    /\ Idle
    /\ getVideosOfDay.query # <<>>
    /\ getVideosOfDay' = [getVideosOfDay EXCEPT
                             !.status = "COMPLETE",
                             !.value = VideosOfDay(getVideosOfDay.query),
                             !.query = <<>>]
    /\ buildVideoPlayer' = [buildVideoPlayer EXCEPT !.stale = TRUE]
    /\ player' = [player EXCEPT !.updatePending = TRUE]
    /\ microtasks' = UpdateJob(player.updatePending)
    /\ lastOp' = Op("getVideosOfDay", "complete", <<>>, 0)
    /\ UNCHANGED <<sigVars, timelineVars, video, dvr, CAM_DB, VIDEOS_LOADED, intervals, swap,
                   coalesceVars, gestures>>

\* the day query rejects: the latest run of getVideosOfDay throws
\* allDayVideosResult.val, the task keeps the error and its value is undefined
GetVideosFailed ==
    /\ Idle
    /\ getVideosOfDay.query # <<>>
    /\ getVideosOfDay' = [getVideosOfDay EXCEPT
                             !.status = "ERROR",
                             !.value = Undefined,
                             !.query = <<>>]
    /\ buildVideoPlayer' =
          IF getVideosOfDay.value # Undefined
          THEN [buildVideoPlayer EXCEPT !.stale = TRUE]
          ELSE buildVideoPlayer
    /\ player' = [player EXCEPT !.updatePending = TRUE]
    /\ microtasks' = UpdateJob(player.updatePending)
    /\ lastOp' = Op("getVideosOfDay", "error", <<>>, 0)
    /\ UNCHANGED <<sigVars, timelineVars, video, dvr, CAM_DB, VIDEOS_LOADED, intervals, swap,
                   coalesceVars, gestures>>

\* buildVideoPlayer after `await VIDEOS_LOADED`, lines 77-133
BuildTaskRun ==
    /\ NextIs("buildTask")
    /\ LET job == Head(microtasks)
           currentVideoEntry == FindVideo(job.videos, TIMESTAMP_SIG.value)
       IN  IF job.videos = Undefined
           THEN /\ microtasks' = Tail(microtasks) \o
                      <<Task("buildDone", job.args, <<>>, job.latest, "nodayvideos")>>
                /\ lastOp' = Op("buildVideoPlayer", "nodayvideos", <<>>, 0)
                /\ UNCHANGED player
           ELSE IF ~IsValid(job.args[2])
           THEN /\ player' = [player EXCEPT !.lastVideoTemplate = FALSE]
                /\ microtasks' = Tail(microtasks) \o
                      <<Task("buildDone", job.args, <<>>, job.latest, "baddate")>>
                /\ lastOp' = Op("buildVideoPlayer", "baddate", <<>>, 0)
           ELSE IF currentVideoEntry = <<>>
           THEN /\ player' = [player EXCEPT !.lastVideoTemplate = FALSE]
                /\ microtasks' = Tail(microtasks) \o
                      <<Task("buildDone", job.args, <<>>, job.latest, "novideo")>>
                /\ lastOp' = Op("buildVideoPlayer", "novideo", <<>>, 0)
           ELSE /\ player' = [player EXCEPT
                      !.currentVideoRef = currentVideoEntry[1].filePath,
                      !.videoStart = currentVideoEntry[1].vidDayStart,
                      !.videoEnd = currentVideoEntry[1].vidDayEnd,
                      !.lastVideoTemplate = TRUE]
                /\ microtasks' = Tail(microtasks) \o
                      <<Task("buildDone", job.args, <<>>, job.latest, "video")>>
                /\ lastOp' = Op("buildVideoPlayer", "video", <<>>, 0)
    /\ UNCHANGED <<sigVars, timelineVars, video, getVideosOfDay,
                   buildVideoPlayer, dvr, CAM_DB, VIDEOS_LOADED, intervals, swap, coalesceVars, gestures>>

\* Task.run() after the task function returned: the latest call completes
BuildDoneRun ==
    /\ NextIs("buildDone")
    /\ LET job == Head(microtasks)
       IN  IF job.latest
           THEN /\ buildVideoPlayer' = [buildVideoPlayer EXCEPT
                                           !.status = "COMPLETE",
                                           !.value = job.result]
                /\ player' = [player EXCEPT !.updatePending = TRUE]
                /\ microtasks' = Tail(microtasks) \o UpdateJob(player.updatePending)
           ELSE /\ microtasks' = Tail(microtasks)
                /\ UNCHANGED <<player, buildVideoPlayer>>
    /\ lastOp' = Op("buildVideoPlayer", "done", <<>>, 0)
    /\ UNCHANGED <<sigVars, timelineVars, video, getVideosOfDay, dvr,
                   CAM_DB, VIDEOS_LOADED, intervals, swap, coalesceVars, gestures>>

\* one Lit update of the player: the tasks' hostUpdate, render(), updated()
\* a task that stays in its error state until it is run by hand
RunsDayTaskUnlessFailed(args) ==
    getVideosOfDay.prevArgs # args /\ getVideosOfDay.status # "ERROR"

\* Task.hostUpdate(): the task runs when its args differ from those of its
\* previous run, whatever its status
RunsDayTask(args) == getVideosOfDay.prevArgs # args

\* updated() without its guard: every update of the player loads
NeedsLoadAlways(rendered) == TRUE

\* updated(): this.oldVideoRef !== this.currentVideoRef and videoRef.value set
NeedsLoad(rendered) == player.oldVideoRef # player.currentVideoRef /\ rendered

PlayerUpdateRun ==
    /\ NextIs("update")
    /\ LET args == PlayerArgs
           runDay == RunsDayTask(args)
           runBuild == \/ buildVideoPlayer.prevArgs # args
                       \/ buildVideoPlayer.stale
           build == IF runBuild THEN BuildPending(args) ELSE buildVideoPlayer
           \* render(): the <video> carrying the ref is in the tree only when
           \* the task is complete with a video template
           rendered == build.status = "COMPLETE" /\ build.value = "video"
           load == NeedsLoad(rendered)
           \* updated(): if (this.requestUpdateRef.none) requestAnimationFrame()
           timer == IF ~player.requestUpdateRef THEN SetInterval(Timer)
                    ELSE Timer
           q1 == IF runDay
                 THEN Supersede(Tail(microtasks), {"dayTask"})
                        \o <<Task("dayTask", args, <<>>, TRUE, "")>>
                 ELSE Tail(microtasks)
           q2 == IF runBuild
                 THEN Supersede(q1, {"buildTask", "buildDone"})
                        \o <<Task("buildTask", args, getVideosOfDay.value, TRUE, "")>>
                 ELSE q1
       IN  /\ getVideosOfDay' =
                 IF runDay
                 THEN [getVideosOfDay EXCEPT !.status = "PENDING",
                                             !.prevArgs = args, !.query = <<>>]
                 ELSE getVideosOfDay
           /\ buildVideoPlayer' = build
           /\ microtasks' = q2
           /\ player' = [player EXCEPT
                 !.updatePending = FALSE,
                 !.playerRef = rendered,
                 !.requestUpdateRef = timer.ref,
                 !.oldVideoRef = IF load THEN player.currentVideoRef ELSE @]
           /\ intervals' = timer.live
           /\ video' = IF load
                       THEN [paused |-> TRUE, currentTime |-> SeekTarget,
                             canplay |-> TRUE, ready |-> FALSE]
                       ELSE video
           /\ swap' = IF load
                      THEN [swap EXCEPT !.loads = Min(@ + 1, MaxLoads)]
                      ELSE swap
           /\ lastOp' = Op("updated", IF rendered THEN "video" ELSE "novideo",
                           IF load THEN <<"load", "currentTime">> ELSE <<>>, 0)
    /\ tsWatcher' = Watch(tsWatcher)
    /\ playWatcher' = Watch(playWatcher)
    /\ UNCHANGED <<TIMESTAMP_SIG, PLAYERSTATE_SIG, pauseWatcher, timelineVars,
                   dvr, CAM_DB, VIDEOS_LOADED, coalesceVars, gestures>>

(***************************************************************************)
(* dvr-ui.ts                                                               *)
(***************************************************************************)
\* the args of DvrUI's tasks that name the selection
DvrArgs == <<dvr.selectedCameraId, dvr.selectedDate>>

\* buildTimelineTask.run(): a run whose date does not parse throws before it
\* queries; every other run leaves a query to be answered
TimelineRun(runs, args) == IF IsValid(args[2]) THEN runs \cup {args} ELSE runs

\* the <input type="date"> buildControlsTask renders is enabled when the
\* selected camera has videos
DateEnabled == VideoFilesOf(dvr.selectedCameraId) # <<>>

\* _initialFetch without its await of PushCamDataToDatabase(...)
PushNotAwaited(loaded) == TRUE

\* const result = await PushCamDataToDatabase(camData.message): the promise
\* is the one of bulkAdd(...).then(...), in which VIDEOS_LOADED is resolved
PushAwaited(loaded) == loaded

\* the initial fetch completes: DvrUI renders the player and the timeline;
\* the timeline task, started with the initial selectedCameraId and waiting
\* on the fetch, sends its query, and so does the camera-name task
Mount ==
    /\ Idle
    /\ ~dvr.mounted
    /\ ~player.disconnected
    /\ dvr.initialFetch = "PENDING"
    /\ PushAwaited(VIDEOS_LOADED)
    /\ dvr' = [dvr EXCEPT !.mounted = TRUE, !.prevArgs = DvrArgs,
                          !.initialFetch = "COMPLETE",
                          !.timelineRuns = TimelineRun(@, DvrArgs),
                          !.camNamesQuery = TRUE]
    /\ player' = [player EXCEPT !.updatePending = TRUE]
    /\ microtasks' = UpdateJob(player.updatePending)
    /\ lastOp' = Op("mount", "", <<>>, 0)
    /\ UNCHANGED <<sigVars, timelineVars, video, getVideosOfDay,
                   buildVideoPlayer, CAM_DB, VIDEOS_LOADED, intervals, swap, coalesceVars, gestures>>

\* buildCamNameTask from the answer of its query to its return: the first
\* camera is selected when none is, and the <select> lists the cameras
CamNamesDone ==
    /\ Idle
    /\ dvr.camNamesQuery
    /\ dvr' = [dvr EXCEPT
                 !.camNamesQuery = FALSE,
                 !.selectedCameraId = IF @ = NoCamera /\ CamNames # <<>>
                                      THEN CamNames[1] ELSE @,
                 !.cameraEnabled = CamNames # <<>>,
                 !.updatePending = TRUE]
    /\ microtasks' = IF dvr.updatePending THEN <<>> ELSE <<Job("dvrUpdate")>>
    /\ lastOp' = Op("buildCamNameTask", "", <<>>, 0)
    /\ UNCHANGED <<sigVars, timelineVars, playerVars, CAM_DB, VIDEOS_LOADED, intervals, swap,
                   coalesceVars, gestures>>

handleDateChange(date) ==
    /\ Idle
    /\ dvr.mounted
    /\ DateEnabled
    /\ date # dvr.selectedDate
    /\ dvr' = [dvr EXCEPT !.selectedDate = date, !.updatePending = TRUE]
    /\ SetTimestamp(0, USER,
                    IF dvr.updatePending THEN <<>> ELSE <<Job("dvrUpdate")>>)
    /\ lastOp' = Op("handleDateChange", date, <<>>, 0)
    /\ UNCHANGED <<PLAYERSTATE_SIG, playWatcher, timelineVars, playerVars,
                   CAM_DB, VIDEOS_LOADED, intervals, swap, coalesceVars, gestures>>

handleCameraChange(camName) ==
    /\ Idle
    /\ dvr.mounted
    /\ dvr.cameraEnabled
    /\ camName # dvr.selectedCameraId
    /\ dvr' = [dvr EXCEPT !.selectedCameraId = camName, !.updatePending = TRUE]
    /\ microtasks' = IF dvr.updatePending THEN <<>> ELSE <<Job("dvrUpdate")>>
    /\ lastOp' = Op("handleCameraChange", camName, <<>>, 0)
    /\ UNCHANGED <<sigVars, timelineVars, playerVars, CAM_DB, VIDEOS_LOADED, intervals, swap,
                   coalesceVars, gestures>>

\* one Lit update of DvrUI: the timeline task's hostUpdate and render(),
\* which hands selectedCameraId and selectedDate to the player
DvrUpdateRun ==
    /\ NextIs("dvrUpdate")
    /\ dvr' = [dvr EXCEPT
                 !.updatePending = FALSE,
                 !.prevArgs = DvrArgs,
                 !.timelineRuns = IF dvr.prevArgs # DvrArgs
                                  THEN TimelineRun(@, DvrArgs) ELSE @]
    /\ IF PlayerArgs # DvrArgs
       THEN /\ player' = [player EXCEPT
                            !.selectedCameraId = dvr.selectedCameraId,
                            !.selectedDate = dvr.selectedDate,
                            !.updatePending = TRUE]
            /\ microtasks' = Tail(microtasks) \o UpdateJob(player.updatePending)
       ELSE /\ microtasks' = Tail(microtasks)
            /\ UNCHANGED player
    /\ lastOp' = Op("dvrUpdate", "", <<>>, 0)
    /\ UNCHANGED <<sigVars, timelineVars, video, getVideosOfDay,
                   buildVideoPlayer, CAM_DB, VIDEOS_LOADED, intervals, swap, coalesceVars, gestures>>

\* buildTimelineTask from the answer of its query to its return
BuildTimelineTaskDone ==
    /\ Idle
    /\ \E args \in dvr.timelineRuns :
          /\ dvr' = [dvr EXCEPT !.timelineRuns = @ \ {args}]
          /\ SetTimestamp(TimelineTs(args), DVR_UI_TIMELINE_COMPONENT, <<>>)
          /\ lastOp' = Op("buildTimelineTask", args[2], <<>>,
                          IF TimestampIsValid(args) THEN 1 ELSE 0)
    /\ UNCHANGED <<PLAYERSTATE_SIG, playWatcher, timelineVars, playerVars,
                   CAM_DB, VIDEOS_LOADED, intervals, swap, coalesceVars, gestures>>

(***************************************************************************)
(* Specification of the whole page at its initial zoom                     *)
(***************************************************************************)
Click ==
    /\ dvr.mounted
    /\ \E clientX \in ClickXs : handleMouseDown(clientX) /\ UNCHANGED gestures

DateChange == \E date \in Days : handleDateChange(date)

Next ==
    \/ Mount
    \/ Click
    \/ handlePlayClick
    \/ DateChange
    \/ CamNamesDone
    \/ BuildTimelineTaskDone
    \/ GetVideosDone
    \/ IntervalTick
    \/ VideoProgress
    \/ handleCanPlay
    \/ disconnectedCallback
    \/ PauseWatcherRun
    \/ TsWatcherRun
    \/ PlayWatcherRun
    \/ PlayerUpdateRun
    \/ DayTaskRun
    \/ BuildTaskRun
    \/ BuildDoneRun
    \/ DvrUpdateRun

Spec == Init /\ [][Next]_vars

\* the event loop runs every queued microtask before it takes the next task
DrainMicrotasks ==
    \/ PauseWatcherRun
    \/ TsWatcherRun
    \/ PlayWatcherRun
    \/ PlayerUpdateRun
    \/ DayTaskRun
    \/ BuildTaskRun
    \/ BuildDoneRun
    \/ DvrUpdateRun

\* the page in a viewport 2400 pixels wide
LiveInit ==
    /\ Init
    /\ clientWidth = 2400

\* the page on the day it was opened with: every step of the whole page
\* except a change of the date
LiveNext ==
    \/ Mount
    \/ Click
    \/ handlePlayClick
    \/ CamNamesDone
    \/ BuildTimelineTaskDone
    \/ GetVideosDone
    \/ IntervalTick
    \/ VideoProgress
    \/ handleCanPlay
    \/ disconnectedCallback
    \/ DrainMicrotasks

LiveSpec == LiveInit /\ [][LiveNext]_vars /\ WF_vars(DrainMicrotasks)

(***************************************************************************)
(* Specification of the page under changes of the selection: the user      *)
(* picks cameras and dates and clears the date input; playback stays       *)
(* paused and nobody clicks on the timeline.                               *)
(***************************************************************************)
SelectDate ==
    \E date \in Days \cup {ClearedDate} : handleDateChange(date)

SelectCamera == \E camName \in Cameras : handleCameraChange(camName)

SelectionNext ==
    \/ Mount
    \/ SelectDate
    \/ SelectCamera
    \/ CamNamesDone
    \/ BuildTimelineTaskDone
    \/ GetVideosDone
    \/ IntervalTick
    \/ handleCanPlay
    \/ PauseWatcherRun
    \/ TsWatcherRun
    \/ PlayerUpdateRun
    \/ DayTaskRun
    \/ BuildTaskRun
    \/ BuildDoneRun
    \/ DvrUpdateRun

SelectionSpec == Init /\ [][SelectionNext]_vars

(***************************************************************************)
(* Specification of the page followed by one repeated click: after any     *)
(* behaviour of the whole page the user clicks the timeline at the pixel   *)
(* whose time the playhead already holds with source USER, and the event   *)
(* loop then drains the microtasks of that click.  The repeated click is   *)
(* the one gesture counted in `gestures`.                                  *)
(***************************************************************************)
RepeatClick ==
    /\ dvr.mounted
    /\ gestures = 0
    /\ \E clientX \in ClickXs :
          handleMouseDown(clientX) /\ TIMESTAMP_SIG' = TIMESTAMP_SIG
    /\ gestures' = 1

RepeatNext ==
    \/ RepeatClick
    \/ Next /\ (gestures = 0 \/ ~Idle)

RepeatSpec == Init /\ [][RepeatNext]_vars

(***************************************************************************)
(* Specification of the page with a failing index: the user changes the    *)
(* camera and the date, and each day query of the player answers or        *)
(* rejects.                                                                *)
(***************************************************************************)
FailureNext ==
    \/ Mount
    \/ DateChange
    \/ SelectCamera
    \/ CamNamesDone
    \/ BuildTimelineTaskDone
    \/ GetVideosDone
    \/ GetVideosFailed
    \/ PauseWatcherRun
    \/ TsWatcherRun
    \/ PlayerUpdateRun
    \/ DayTaskRun
    \/ BuildTaskRun
    \/ BuildDoneRun
    \/ DvrUpdateRun

FailureSpec == LiveInit /\ [][FailureNext]_vars

(***************************************************************************)
(* Specification of uninterrupted playback: the page starts up, the user   *)
(* presses play and then leaves the page alone while the element plays.    *)
(* The event loop drains its microtasks and the browser delivers the       *)
(* canplay event of a loaded resource.                                     *)
(***************************************************************************)
\* the play button pressed while playback is paused
PressPlay == PLAYERSTATE_SIG = PAUSED /\ handlePlayClick

PlaybackNext ==
    \/ Mount
    \/ PressPlay
    \/ CamNamesDone
    \/ BuildTimelineTaskDone
    \/ GetVideosDone
    \/ IntervalTick
    \/ VideoProgress
    \/ handleCanPlay
    \/ DrainMicrotasks

PlaybackSpec ==
    /\ Init
    /\ [][PlaybackNext]_vars
    /\ WF_vars(DrainMicrotasks)
    /\ WF_vars(handleCanPlay)

(***************************************************************************)
(* Specification of the player's polling timer: the page with its player   *)
(* taken out of the document and put back any number of times, and with    *)
(* requestAnimationFrame(), a public method, called at any time.           *)
(***************************************************************************)
\* a call of requestAnimationFrame() from outside updated()
requestAnimationFrame ==
    /\ Idle
    /\ player' = [player EXCEPT !.requestUpdateRef = SetInterval(Timer).ref]
    /\ intervals' = SetInterval(Timer).live
    /\ lastOp' = Op("requestAnimationFrame",
                    IF player.requestUpdateRef THEN "return" ELSE "setInterval",
                    <<>>, 0)
    /\ UNCHANGED <<sigVars, microtasks, timelineVars, video, getVideosOfDay,
                   buildVideoPlayer, dvr, CAM_DB, VIDEOS_LOADED, swap, coalesceVars,
                   gestures>>

\* <dvr-ui> and the player in it are put back into the document:
\* connectedCallback() of SignalWatcher(LitElement) requests an update
connectedCallback ==
    /\ Idle
    /\ player.disconnected
    /\ player' = [player EXCEPT !.disconnected = FALSE,
                                !.updatePending = TRUE]
    /\ microtasks' = UpdateJob(player.updatePending)
    /\ dvr' = [dvr EXCEPT !.mounted = TRUE]
    /\ lastOp' = Op("connectedCallback", "", <<>>, 0)
    /\ UNCHANGED <<sigVars, timelineVars, video, getVideosOfDay,
                   buildVideoPlayer, CAM_DB, VIDEOS_LOADED, intervals, swap, coalesceVars>>

\* one of a bounded number of reconnections
Reconnect ==
    /\ gestures < MaxGestures
    /\ connectedCallback
    /\ gestures' = gestures + 1

TimerNext ==
    \/ Mount
    \/ DateChange
    \/ handlePlayClick
    \/ CamNamesDone
    \/ BuildTimelineTaskDone
    \/ GetVideosDone
    \/ IntervalTick
    \/ VideoProgress
    \/ handleCanPlay
    \/ requestAnimationFrame
    \/ disconnectedCallback
    \/ Reconnect
    \/ DrainMicrotasks

TimerSpec == LiveInit /\ [][TimerNext]_vars

(***************************************************************************)
(* Specification of the day query: the server's list, of at most MaxSegs   *)
(* one-minute videos of the first camera in vidStartEpoch order, is stored *)
(* before the page is mounted; the page starts up and the user changes the *)
(* date.  The list may hold a video that ends exactly at midnight, one     *)
(* that starts 30 s before midnight, and videos listed under the second    *)
(* day that start 30 s or 100 s before that day does.                      *)
(***************************************************************************)
ListedVideos ==
    {Video("d1", 0), Video("d1", 60), Video("d1", SECONDS_IN_DAY - 60),
     Video("d1", SECONDS_IN_DAY - 30), Video("d2", 0), Video("d2", 100),
     Video("d2", 0 - 30), Video("d2", 0 - 100)}

ServerLists ==
    UNION {{videos \in [1..n -> ListedVideos] :
               \A i \in 1..(n - 1) :
                   videos[i].vidStartEpoch < videos[i + 1].vidStartEpoch}
           : n \in 1..MaxSegs}

\* PushCamDataToDatabase(camData): clear(), bulkAdd(newEntries) and, when
\* that has completed, VIDEOS_LOADED.resolve()
PushCamDataToDatabase ==
    /\ ~VIDEOS_LOADED
    /\ dvr.initialFetch = "PENDING"
    /\ \E videos \in ServerLists :
          CAM_DB' = [camName \in Cameras |->
                        IF camName = "cam1" THEN videos ELSE <<>>]
    /\ VIDEOS_LOADED' = TRUE
    /\ lastOp' = Op("PushCamDataToDatabase", "", <<>>, 0)
    /\ UNCHANGED <<sigVars, microtasks, timelineVars, playerVars, dvr,
                   intervals, swap, coalesceVars, gestures>>

\* the fetch of the list, or bulkAdd, fails: _initialFetch throws, DvrUI
\* renders its error branch and never the player
InitialFetchFailed ==
    /\ ~VIDEOS_LOADED
    /\ dvr.initialFetch = "PENDING"
    /\ dvr' = [dvr EXCEPT !.initialFetch = "ERROR"]
    /\ lastOp' = Op("_initialFetch", "error", <<>>, 0)
    /\ UNCHANGED <<sigVars, microtasks, timelineVars, playerVars, CAM_DB,
                   VIDEOS_LOADED, intervals, swap, coalesceVars, gestures>>

\* the page has been constructed and _initialFetch runs; CAM_DB holds what
\* an earlier visit of the page left in it
DayQueryInit ==
    /\ Constructed
    /\ VIDEOS_LOADED = FALSE
    /\ clientWidth = 2400
    /\ zoomLevel = minZoomLevel
    /\ timelineWidth = 2400

DayQueryNext ==
    \/ PushCamDataToDatabase
    \/ InitialFetchFailed
    \/ Mount
    \/ DateChange
    \/ CamNamesDone
    \/ BuildTimelineTaskDone
    \/ GetVideosDone
    \/ PauseWatcherRun
    \/ TsWatcherRun
    \/ PlayerUpdateRun
    \/ DayTaskRun
    \/ BuildTaskRun
    \/ BuildDoneRun
    \/ DvrUpdateRun

DayQuerySpec == DayQueryInit /\ [][DayQueryNext]_vars

(***************************************************************************)
(* Specification of the timeline component on its own: any sequence of     *)
(* MaxGestures key, wheel and click events, started after some number of   *)
(* zoom-in wheel notches on the freshly constructed component (the         *)
(* playhead is 0 then, so the notches leave leftOffset at 0).              *)
(***************************************************************************)
\* numbers of initial zoom-in notches; the largest saturates at maxZoomLevel
InitNotches == {0, 1, 2, 30, 60}

RECURSIVE ZoomedIn(_, _)
ZoomedIn(notches, zoom) ==
    IF notches = 0 \/ zoom = maxZoomLevel THEN zoom
    ELSE ZoomedIn(notches - 1, ClampZoom(ScaleZoom(WheelFactor(-100), zoom)))

TimelineInit ==
    /\ Constructed
    /\ VIDEOS_LOADED = TRUE
    /\ \E notches \in InitNotches :
          /\ zoomLevel = ZoomedIn(notches, minZoomLevel)
          /\ timelineWidth = IF zoomLevel = minZoomLevel THEN 2400
                             ELSE TimelineWidthOf(zoomLevel)

Spend == gestures < MaxGestures /\ gestures' = gestures + 1

KeyDown == \E key \in Keys : handleKeyDown(key) /\ Spend

Wheel == \E deltaY \in WheelDeltas : handleWheel(deltaY) /\ Spend

MouseDown == \E clientX \in ClickXs : handleMouseDown(clientX) /\ Spend

TimelineNext == KeyDown \/ Wheel \/ MouseDown \/ PauseWatcherRun

TimelineSpec == TimelineInit /\ [][TimelineNext]_vars

(***************************************************************************)
(* Specification of the timeline element being removed from the page and  *)
(* put back, with at most MaxGestures key events in between.  A key event  *)
(* is delivered to a listener the element has registered on window.        *)
(***************************************************************************)
\* connectedCallback(): addKeyboardListeners()
timelineConnected ==
    /\ Idle
    /\ ~keyboard.connected
    /\ keyboard.listeners < MaxListeners
    /\ keyboard' = [connected |-> TRUE,
                    listeners |-> AddEventListener(keyboard.listeners)]
    /\ lastOp' = Op("connectedCallback", "", <<>>, 0)
    /\ UNCHANGED <<sigVars, microtasks, clientWidth, zoomLevel, timelineWidth,
                   leftOffset, playerVars, dvr, CAM_DB, VIDEOS_LOADED, intervals, swap, coalesceVars,
                   gestures>>

\* disconnectedCallback(): removeKeyboardListeners()
timelineDisconnected ==
    /\ Idle
    /\ keyboard.connected
    /\ keyboard' = [connected |-> FALSE,
                    listeners |-> RemoveEventListener(keyboard.listeners)]
    /\ lastOp' = Op("disconnectedCallback", "timeline", <<>>, 0)
    /\ UNCHANGED <<sigVars, microtasks, clientWidth, zoomLevel, timelineWidth,
                   leftOffset, playerVars, dvr, CAM_DB, VIDEOS_LOADED, intervals, swap, coalesceVars,
                   gestures>>

\* a key event while the element is in the page
ConnectedKeyDown == keyboard.connected /\ keyboard.listeners > 0 /\ KeyDown

\* a key event delivered to a listener of the removed element: its container
\* has no width, so handleZoom returns at once and only the pan keys act
StrayKeyDown ==
    /\ ~keyboard.connected
    /\ keyboard.listeners > 0
    /\ \E key \in Keys \ {"w", "ArrowUp", "s", "ArrowDown"} :
          handleKeyDown(key) /\ Spend

TeardownNext ==
    \/ timelineConnected
    \/ timelineDisconnected
    \/ ConnectedKeyDown
    \/ StrayKeyDown

TeardownSpec == LiveInit /\ [][TeardownNext]_vars

(***************************************************************************)
(* Specification of the coalescing loop on its own: every list of at most  *)
(* MaxSegs one-minute videos in vidStartEpoch order.                       *)
(***************************************************************************)
SegStarts == {0, 30, 60, 120, 200, 260}

SortedByStart(videos) ==
    \A i \in 1..(Len(videos) - 1) :
        videos[i].vidStartEpoch <= videos[i + 1].vidStartEpoch

VideoLists ==
    UNION {{[i \in 1..n |-> Video("d1", starts[i])] : starts \in [1..n -> SegStarts]}
           : n \in 0..MaxSegs}

CoalesceInit ==
    /\ Init
    /\ clientWidth = 2400

PickVideos ==
    /\ lastOp.name = "Init"
    /\ \E videos \in VideoLists :
          /\ SortedByStart(videos)
          /\ coalesceIn' = videos
    /\ lastOp' = Op("sortBy", "", <<>>, 0)
    /\ UNCHANGED <<sigVars, microtasks, timelineVars, playerVars, dvr, CAM_DB, VIDEOS_LOADED, intervals,
                   swap, coalesceOut, gestures>>

RunCoalesce ==
    /\ lastOp.name = "sortBy"
    /\ coalesceOut' = Coalesce(coalesceIn)
    /\ lastOp' = Op("coalesce", "", <<>>, 0)
    /\ UNCHANGED <<sigVars, microtasks, timelineVars, playerVars, dvr, CAM_DB, VIDEOS_LOADED, intervals,
                   swap, coalesceIn, gestures>>

CoalesceNext == PickVideos \/ RunCoalesce

CoalesceSpec == CoalesceInit /\ [][CoalesceNext]_vars

(***************************************************************************)
(* Properties of the timeline geometry (TimelineSpec)                      *)
(***************************************************************************)
\* pixel position of the playhead on the strip at the current / next zoom
AnchorPixel == PixelOfTime(TimelineWidthOf(zoomLevel), TIMESTAMP_SIG.value)
AnchorPixelNext == PixelOfTime(TimelineWidthOf(zoomLevel'), TIMESTAMP_SIG'.value)

MaxOffsetOf(width) == Max(0, width - clientWidth)

\* C4: in every state reached by pan and zoom gestures,
\* 0 <= leftOffset <= max(0, timelineWidth - viewportWidth).
C4_LeftOffsetClamped ==
    0 <= leftOffset /\ leftOffset <= MaxOffsetOf(timelineWidth)

\* C5: in every state reached by pan and zoom gestures, zoomLevel lies in
\* [minZoomLevel, maxZoomLevel].
C5_ZoomLevelInBounds ==
    minZoomLevel <= zoomLevel /\ zoomLevel <= maxZoomLevel

\* a zoom-in was requested at maxZoomLevel and clamped back to it
C5_Witness ==
    /\ clientWidth > 0
    /\ lastOp.name = "handleZoom"
    /\ lastOp.arg > maxZoomLevel
    /\ zoomLevel = maxZoomLevel

\* C6 as claimed: from every valid (zoomLevel, leftOffset, anchor, viewport),
\* a zoom that changes the zoom level leaves the anchor's position relative
\* to the viewport unchanged.
C6_AnchorPreserved ==
    [][(/\ zoomLevel' # zoomLevel
        /\ 0 <= leftOffset
        /\ leftOffset <= MaxOffsetOf(TimelineWidthOf(zoomLevel)))
       => AnchorPixelNext - leftOffset' = AnchorPixel - leftOffset]_vars

\* C6 as amended: a zoom that changes the zoom level leaves the anchor's
\* position relative to the viewport unchanged whenever the offset that
\* does so lies in [0, max(0, newTimelineWidth - viewportWidth)]; otherwise
\* leftOffset is the nearer end of that interval.
C6_AnchorPreservedUnlessClamped ==
    [][zoomLevel' # zoomLevel =>
        LET preserving == leftOffset + AnchorPixelNext - AnchorPixel
            maxOffset == MaxOffsetOf(TimelineWidthOf(zoomLevel'))
        IN  /\ (0 <= preserving /\ preserving <= maxOffset)
                 => AnchorPixelNext - leftOffset' = AnchorPixel - leftOffset
            /\ preserving < 0 => leftOffset' = 0
            /\ preserving > maxOffset => leftOffset' = maxOffset]_vars

\* a zoom about a playhead inside the day moved leftOffset to an offset
\* strictly inside the interval
C6_Witness ==
    /\ lastOp.name = "handleZoom"
    /\ lastOp.tag = "zoomed"
    /\ TIMESTAMP_SIG.value > 0
    /\ 0 < leftOffset
    /\ leftOffset < MaxOffsetOf(timelineWidth)

\* C7: a zoom request whose clamped value equals the current zoomLevel
\* writes none of zoomLevel, timelineWidth and leftOffset.
C7_NoOpZoom ==
    [][(/\ lastOp'.name = "handleZoom"
        /\ Max(minZoomLevel, Min(maxZoomLevel, lastOp'.arg)) = zoomLevel)
       => UNCHANGED <<zoomLevel, timelineWidth, leftOffset>>]_vars

\* a zoom-out was requested at minZoomLevel while leftOffset was off zero
C7_Witness ==
    /\ clientWidth > 0
    /\ lastOp.name = "handleZoom"
    /\ lastOp.arg < minZoomLevel
    /\ zoomLevel = minZoomLevel
    /\ leftOffset # 0

\* C8: click-to-seek writes PlayheadState with source User and a value in
\* the half-open range [0, 86400).
C8_ClickInDay ==
    lastOp.name = "handleMouseDown" =>
        /\ TIMESTAMP_SIG.source = USER
        /\ 0 <= TIMESTAMP_SIG.value
        /\ TIMESTAMP_SIG.value < SECONDS_IN_DAY

RECURSIVE MergeTouchingOrOverlapping(_, _, _)
MergeTouchingOrOverlapping(videos, current, timeRanges) ==
    IF videos = <<>>
    THEN timeRanges \o current
    ELSE LET segment == [start |-> Head(videos).vidStartEpoch,
                         end |-> Head(videos).vidEndEpoch]
         IN  IF current = <<>>
             THEN MergeTouchingOrOverlapping(Tail(videos), <<segment>>, timeRanges)
             ELSE IF segment.start <= current[1].end
             THEN MergeTouchingOrOverlapping(
                      Tail(videos),
                      <<[current[1] EXCEPT !.end = Max(current[1].end, segment.end)]>>,
                      timeRanges)
             ELSE MergeTouchingOrOverlapping(Tail(videos), <<segment>>,
                                             Append(timeRanges, current[1]))

\* C10: coalescing merges every segment that touches or overlaps the current
\* range, extending it to max(currentRange.end, segment.end).
C10_CoalesceMergesOverlaps ==
    lastOp.name = "coalesce" =>
        coalesceOut = MergeTouchingOrOverlapping(coalesceIn, <<>>, <<>>)


(***************************************************************************)
(* Claims about the synchronisation of playhead and playback state         *)
(***************************************************************************)
Queued(kind) == \E i \in 1..Len(microtasks) : microtasks[i].kind = kind

\* C1: a write of TIMESTAMP_SIG with source PLAYER_COMPONENT never makes
\* the player's timestamp observer take its seek path: when the observer
\* processes such a write it calls pause() zero times and assigns the video
\* element's playback position zero times, and the element is left as it was.
C1_PlayerWriteNeverSeeks ==
    [][(TIMESTAMP_SIG.source = PLAYER_COMPONENT /\ TsWatcherRun)
          => (lastOp'.calls = <<>> /\ video' = video)]_vars

\* C1 witness: the observer has processed a Player-origin write whose value
\* lies inside the loaded video while the <video> element was attached and
\* playing, the situation in which any other source would have seeked.
C1_Witness ==
    /\ lastOp.name = "tsWatcher"
    /\ lastOp.tag = PLAYER_COMPONENT
    /\ TIMESTAMP_SIG.source = PLAYER_COMPONENT
    /\ SeekPathAnySource
    /\ ~video.paused
    /\ video.currentTime > 0

ScrubWrite == TIMESTAMP_SIG.source \in {USER, DVR_UI_TIMELINE_COMPONENT}

\* C2: every write of TIMESTAMP_SIG with source USER or
\* DVR_UI_TIMELINE_COMPONENT forces PLAYERSTATE_SIG to PAUSED: the write
\* queues the pause watcher, no other write replaces the value before the
\* watcher's body runs, and when that body has run PLAYERSTATE_SIG is PAUSED
\* whatever it was before.
C2_ScrubForcesPaused ==
    [][/\ (Click \/ DateChange \/ BuildTimelineTaskDone)
             => (Queued("pauseWatcher")' /\ ScrubWrite')
       /\ (Queued("pauseWatcher") /\ ScrubWrite)
             => IF NextIs("pauseWatcher")
                THEN PLAYERSTATE_SIG' = PAUSED
                ELSE /\ Queued("pauseWatcher")'
                     /\ TIMESTAMP_SIG' = TIMESTAMP_SIG]_vars

\* C2 witness: the pause watcher has processed a timeline-origin write that
\* arrived while the video was playing, and playback state is now PAUSED
\* with the player's play/pause observer queued to pause the element.
C2_Witness ==
    /\ lastOp.name = "pauseWatcher"
    /\ lastOp.tag = DVR_UI_TIMELINE_COMPONENT
    /\ PLAYERSTATE_SIG = PAUSED
    /\ ~video.paused
    /\ Queued("playWatcher")

\* C3: a write of TIMESTAMP_SIG with source PLAYER_COMPONENT leaves
\* PLAYERSTATE_SIG unchanged: no step taken while the notification of such
\* a write is being processed writes PLAYERSTATE_SIG, so PLAYING stays PLAYING
\* across playback-progress updates.
C3_PlayerWriteKeepsPlayerState ==
    [][(/\ TIMESTAMP_SIG.source = PLAYER_COMPONENT
        /\ (Queued("pauseWatcher") \/ Queued("tsWatcher")))
          => PLAYERSTATE_SIG' = PLAYERSTATE_SIG]_vars

\* C3 witness: the pause watcher has processed a Player-origin write made
\* by playback progress, and playback is still PLAYING with the element
\* running.
C3_Witness ==
    /\ lastOp.name = "pauseWatcher"
    /\ lastOp.tag = PLAYER_COMPONENT
    /\ PLAYERSTATE_SIG = PLAYING
    /\ ~video.paused
    /\ player.playerRef


(***************************************************************************)
(* Claims about the timeline task's initial-playhead policy                *)
(***************************************************************************)
\* C11: when buildTimelineTask has rebuilt the time ranges and the current
\* playhead value falls within one of them (timestampIsValid), the task
\* leaves TIMESTAMP_SIG as it is, value and source.
C11_ValidPlayheadKept ==
    [][(BuildTimelineTaskDone /\ lastOp'.arg = 1)
          => TIMESTAMP_SIG' = TIMESTAMP_SIG]_vars

\* the start of the earliest recording of the camera, in seconds from the
\* start of the day of args = <<camName, day>>; 0 when the camera has no recording
FirstRangeStart(args) ==
    IF VideoFilesOf(args[1]) = <<>> THEN 0
    ELSE VideoFilesOf(args[1])[1].vidStartEpoch - DayEpoch(args[2])

\* C12: when the current playhead value falls in no time range after the
\* ranges are rebuilt, buildTimelineTask writes TIMESTAMP_SIG with source
\* DVR_UI_TIMELINE_COMPONENT and value the first range's start in seconds
\* from the selected day's start, or 0 when there are no ranges.
C12_InvalidPlayheadReset ==
    [][(BuildTimelineTaskDone /\ lastOp'.arg = 0)
          => \E args \in dvr.timelineRuns \ dvr'.timelineRuns :
                TIMESTAMP_SIG' = [value |-> FirstRangeStart(args),
                                  source |-> DVR_UI_TIMELINE_COMPONENT]]_vars

\* C12 witness: the timeline task of the second day has found the playhead
\* in no range and has written the first range's start relative to that day.
C12_Witness ==
    /\ lastOp.name = "buildTimelineTask"
    /\ lastOp.tag = "d2"
    /\ lastOp.arg = 0
    /\ CamNames # <<>>
    /\ TIMESTAMP_SIG = [value |-> FirstRangeStart(<<"cam1", "d2">>),
                        source |-> DVR_UI_TIMELINE_COMPONENT]


(***************************************************************************)
(* Claims about the player's segment state machine                         *)
(***************************************************************************)
\* the playhead lies in the window of the segment whose <video> is attached
InsideLoadedSegment ==
    /\ player.playerRef
    /\ player.videoStart <= TIMESTAMP_SIG.value
    /\ TIMESTAMP_SIG.value < player.videoEnd

\* C13: when the player's observer processes a playhead change whose source
\* is not PLAYER_COMPONENT and whose value v lies in [videoStart, videoEnd)
\* of the loaded segment, it seeks and does not reload: the element is
\* paused, its position is v - videoStart, the component keeps the same
\* segment, and no buildVideoPlayer run or load() is started.
C13_SeekNotReload ==
    [][(/\ NextIs("tsWatcher")
        /\ InsideLoadedSegment
        /\ TIMESTAMP_SIG.source # PLAYER_COMPONENT)
          => /\ video'.paused
             /\ video'.currentTime = TIMESTAMP_SIG.value - player.videoStart
             /\ lastOp'.calls = <<"pause", "currentTime">>
             /\ player' = player
             /\ buildVideoPlayer' = buildVideoPlayer
             /\ microtasks' = Tail(microtasks)
             /\ swap'.loads = 0]_vars

\* C13 witness: a User write inside a loaded segment that does not start the
\* day was processed: the element is paused at v - videoStart, past its start.
C13_Witness ==
    /\ lastOp.name = "tsWatcher"
    /\ lastOp.tag = USER
    /\ lastOp.calls = <<"pause", "currentTime">>
    /\ player.videoStart > 0
    /\ video.currentTime > 0
    /\ video.currentTime = TIMESTAMP_SIG.value - player.videoStart
    /\ video.paused


\* the segment of the player's day videos that contains the playhead
TargetSegment ==
    SelectSeq(getVideosOfDay.value,
              LAMBDA segment : /\ segment.vidDayStart <= TIMESTAMP_SIG.value
                               /\ TIMESTAMP_SIG.value < segment.vidDayEnd)

\* the microtasks that followed the observer's discovery that the playhead
\* left the loaded segment's window have all run, the last being an update
CrossingSettled ==
    /\ Idle
    /\ lastOp.name = "updated"
    /\ swap.crossing
    /\ TargetSegment # <<>>

\* C14: when the playhead has stepped out of the loaded segment A to a value
\* v inside segment B, then once the player has settled it has re-resolved
\* to B, has called load() exactly one time, and the element's position is
\* v - B.dayStart.
C14_BoundarySwapsOnce ==
    CrossingSettled =>
        /\ swap.loads = 1
        /\ player.playerRef
        /\ player.oldVideoRef = TargetSegment[1].filePath
        /\ player.currentVideoRef = TargetSegment[1].filePath
        /\ player.videoStart = TargetSegment[1].vidDayStart
        /\ video.currentTime = TIMESTAMP_SIG.value - TargetSegment[1].vidDayStart

\* C14 witness: playback ran from the first segment into the second, which
\* starts where the first ends: the player has settled on the second one.
C14_Witness ==
    /\ CrossingSettled
    /\ TIMESTAMP_SIG.source = PLAYER_COMPONENT
    /\ PLAYERSTATE_SIG = PLAYING
    /\ player.videoStart = VideoLength
    /\ swap.loads = 1


\* buildVideoPlayer is about to look the playhead up and no segment of the
\* day contains it
SegmentMiss ==
    /\ NextIs("buildTask")
    /\ \A i \in DOMAIN Head(microtasks).videos :
          ~ /\ Head(microtasks).videos[i].vidDayStart <= TIMESTAMP_SIG.value
            /\ TIMESTAMP_SIG.value < Head(microtasks).videos[i].vidDayEnd

\* C15: a playhead value in a gap between segments makes buildVideoPlayer
\* return its "no video" placeholder without a fault, and the last video
\* template, if there is one, is still held by the component after the miss.
C15_MissKeepsLastTemplate ==
    [][SegmentMiss
          => /\ Queued("buildDone")'
             /\ lastOp'.tag = "novideo"
             /\ player.lastVideoTemplate => player'.lastVideoTemplate]_vars


(***************************************************************************)
(* Claims about the polling timer and the play/pause observer              *)
(***************************************************************************)
\* a step that writes TIMESTAMP_SIG: writes happen in macrotasks and each of
\* them notifies the pause watcher
WritesTimestamp == Idle /\ Queued("pauseWatcher")'

\* C16: the polling timer is the only writer that tags TIMESTAMP_SIG with
\* PLAYER_COMPONENT; a tick writes videoStart + currentTime, and only when
\* that differs from the value TIMESTAMP_SIG holds; a tick without a <video>
\* or with an equal value writes nothing.
C16_OnlyPollerTagsPlayer ==
    [][/\ (WritesTimestamp /\ TIMESTAMP_SIG'.source = PLAYER_COMPONENT)
             => /\ IntervalTick
                /\ player.playerRef
                /\ TIMESTAMP_SIG'.value = player.videoStart + video.currentTime
                /\ TIMESTAMP_SIG'.value # TIMESTAMP_SIG.value
       /\ (/\ IntervalTick
           /\ \/ ~player.playerRef
              \/ player.videoStart + video.currentTime = TIMESTAMP_SIG.value)
             => UNCHANGED <<TIMESTAMP_SIG, microtasks>>]_vars

\* C16 witness: a tick has published the position of a playing segment that
\* does not start the day, as videoStart + currentTime with source Player.
C16_Witness ==
    /\ lastOp.name = "interval"
    /\ lastOp.tag = "write"
    /\ player.videoStart > 0
    /\ video.currentTime > 0
    /\ TIMESTAMP_SIG = [value |-> player.videoStart + video.currentTime,
                        source |-> PLAYER_COMPONENT]


\* C17: PLAYERSTATE_SIG does not stay PLAYING without a player element: once
\* the microtasks of the step that took the <video> away have run (no
\* segment found, or the component torn down), PLAYERSTATE_SIG is PAUSED.
C17_NoElementMeansPaused ==
    (Idle /\ (~player.playerRef \/ player.disconnected))
        => PLAYERSTATE_SIG = PAUSED



\* the calls on the element that match the command state
MatchingCalls(state) == IF state = PLAYING THEN <<"play">> ELSE <<"pause">>

\* C18: native playback follows the command state: every change of
\* PLAYERSTATE_SIG made while a <video> is attached queues the player's
\* observer, the element stays attached until the observer runs, and the
\* observer then calls play() for PLAYING and pause() for PAUSED.
C18_PlaybackFollowsState ==
    [][/\ (PLAYERSTATE_SIG' # PLAYERSTATE_SIG /\ player.playerRef)
             => Queued("playWatcher")'
       /\ (Queued("playWatcher") /\ player.playerRef)
             => IF NextIs("playWatcher")
                THEN /\ lastOp'.calls = MatchingCalls(PLAYERSTATE_SIG)
                     /\ video'.paused = (PLAYERSTATE_SIG = PAUSED)
                ELSE Queued("playWatcher")' /\ player'.playerRef]_vars

\* C18 amended: every change of PLAYERSTATE_SIG made while a <video> is
\* attached queues the player's observer, and whenever the observer runs
\* with a <video> attached it calls play() for PLAYING and pause() for
\* PAUSED; the element may be detached before the observer runs.
C18_PlaybackFollowsStateIfAttached ==
    [][/\ (PLAYERSTATE_SIG' # PLAYERSTATE_SIG /\ player.playerRef)
             => Queued("playWatcher")'
       /\ (Queued("playWatcher") /\ ~NextIs("playWatcher"))
             => Queued("playWatcher")'
       /\ (NextIs("playWatcher") /\ player.playerRef)
             => /\ lastOp'.calls = MatchingCalls(PLAYERSTATE_SIG)
                /\ video'.paused = (PLAYERSTATE_SIG = PAUSED)
                /\ PLAYERSTATE_SIG' = PLAYERSTATE_SIG]_vars

\* C18 witness: after play and pause, a second play toggle has reached the
\* element: the observer has called play() on an element that had already
\* played and been paused.
C18_Witness ==
    /\ lastOp.name = "playWatcher"
    /\ lastOp.calls = <<"play">>
    /\ PLAYERSTATE_SIG = PLAYING
    /\ ~video.paused
    /\ video.currentTime > 0
    /\ TIMESTAMP_SIG.source = PLAYER_COMPONENT


\* C19: on the canplay event of a loaded resource, handleCanPlay calls
\* play() exactly once when PLAYERSTATE_SIG is PLAYING and makes no call,
\* leaving the element as it is, when PLAYERSTATE_SIG is PAUSED; the event is
\* consumed and PLAYERSTATE_SIG is not written.
C19_ResumeOnCanPlay ==
    [][handleCanPlay
          => /\ (PLAYERSTATE_SIG = PLAYING /\ player.playerRef)
                   => (lastOp'.calls = <<"play">> /\ ~video'.paused)
             /\ PLAYERSTATE_SIG = PAUSED
                   => (lastOp'.calls = <<>> /\ video'.paused = video.paused)
             /\ ~video'.canplay
             /\ PLAYERSTATE_SIG' = PLAYERSTATE_SIG]_vars

\* C19 witness: playback ran from the first segment into the second, the
\* second was loaded (which pauses the element), and its canplay event has
\* resumed playback.
C19_Witness ==
    /\ lastOp.name = "handleCanPlay"
    /\ lastOp.calls = <<"play">>
    /\ PLAYERSTATE_SIG = PLAYING
    /\ ~video.paused
    /\ video.ready
    /\ player.videoStart = VideoLength
    /\ TIMESTAMP_SIG = [value |-> VideoLength, source |-> PLAYER_COMPONENT]


\* C20: after disconnectedCallback the player component holds no armed
\* observer on TIMESTAMP_SIG or PLAYERSTATE_SIG and no polling timer.
C20_TeardownDisarms ==
    player.disconnected
        => /\ ~tsWatcher.watching
           /\ ~playWatcher.watching
           /\ ~player.requestUpdateRef


(***************************************************************************)
(* Claims about changes of the selected camera and day                     *)
(***************************************************************************)
\* the page is mounted and nothing is in flight: no microtask, no timeline
\* run, no day query, no camera-name query
Settled ==
    /\ Idle
    /\ dvr.mounted
    /\ dvr.timelineRuns = {}
    /\ getVideosOfDay.query = <<>>
    /\ ~dvr.camNamesQuery

\* the segments of the selected camera and day that contain the playhead
SegmentOfSelection ==
    SelectSeq(VideoFilesOf(dvr.selectedCameraId),
              LAMBDA v :
                 /\ DayEpoch(dvr.selectedDate) <= v.vidStartEpoch
                 /\ v.vidEndEpoch <= DayEpoch(dvr.selectedDate) + SECONDS_IN_DAY
                 /\ v.vidDayStart <= TIMESTAMP_SIG.value
                 /\ TIMESTAMP_SIG.value < v.vidDayEnd)

\* C21: once a change of the selected camera or day has been handled to the
\* end, the playhead is the first time range's start relative to the
\* selected day, written with source DVR_UI_TIMELINE_COMPONENT, and the
\* player has re-resolved for the new selection: when a segment of the
\* selected camera and day contains the playhead, that segment is the one
\* attached and its window, not the old one, is the player's window.
C21_SelectionChangeResets ==
    (Settled /\ IsValid(dvr.selectedDate) /\ dvr.selectedCameraId # NoCamera)
        => /\ TIMESTAMP_SIG = [value |-> FirstRangeStart(DvrArgs),
                               source |-> DVR_UI_TIMELINE_COMPONENT]
           /\ SegmentOfSelection # <<>>
                 => /\ player.playerRef
                    /\ player.currentVideoRef = SegmentOfSelection[1].filePath
                    /\ player.videoStart = SegmentOfSelection[1].vidDayStart
                    /\ player.videoEnd = SegmentOfSelection[1].vidDayEnd


\* C22: handling a selection that ends in a parse error leaves the playhead
\* untouched: neither the date handler given a string that parses to no
\* date, nor the timeline task run for a selectedCameraId that names no
\* camera, writes TIMESTAMP_SIG.
C22_ParseErrorKeepsPlayhead ==
    [][(\/ handleDateChange(ClearedDate)
        \/ /\ BuildTimelineTaskDone
           /\ \E date \in Days :
                 <<NoCamera, date>> \in dvr.timelineRuns \ dvr'.timelineRuns)
          => TIMESTAMP_SIG' = TIMESTAMP_SIG]_vars


(***************************************************************************)
(* Claims about the observers of the playhead                              *)
(***************************************************************************)
\* C23: writing to the playhead the (value, source) it already holds makes
\* the observers start no media load(): while the microtasks of the repeated
\* click drain, no update of the player calls load(), whether the value is
\* inside the window of the loaded segment or outside it.
C23_RepeatedWriteLoadsNothing ==
    gestures = 1 => ~(lastOp.name = "updated" /\ lastOp.calls # <<>>)

\* C23 happens outside the window: the repeated click has been handled, the
\* player looked for a segment again and rendered without loading anything
C23_Witness ==
    /\ gestures = 1
    /\ Idle
    /\ TIMESTAMP_SIG.value > 0
    /\ lastOp.name = "updated"
    /\ ~timestampWithinVideo

\* C23 happens inside the window: the repeated click ends in a seek
C23_WitnessInside ==
    /\ gestures = 1
    /\ Idle
    /\ TIMESTAMP_SIG.value > 0
    /\ timestampWithinVideo
    /\ player.playerRef
    /\ lastOp.name = "tsWatcher"

\* C24: in every reachable state of the page the playhead value lies within
\* the selected day, 0 <= TIMESTAMP_SIG.value < SECONDS_IN_DAY.
C24_PlayheadWithinDay ==
    0 <= TIMESTAMP_SIG.value /\ TIMESTAMP_SIG.value < SECONDS_IN_DAY

\* a watcher that the next set() of its signal notifies
Armed(watcher) == watcher.watching /\ ~watcher.dirty

\* the body of the watcher `kind` waits in the microtask queue after the step
QueuedNext(kind) == \E i \in DOMAIN microtasks' : microtasks'[i].kind = kind

\* C26: the body of an observer never runs inside the write that notifies
\* it.  A step that changes TIMESTAMP_SIG leaves PLAYERSTATE_SIG, the video
\* element and the buildVideoPlayer task untouched and queues the body of
\* each armed playhead observer as a microtask; a step that changes
\* PLAYERSTATE_SIG makes no play()/pause() call on the element and queues
\* the body of the armed play-state observer.
C26_ObserversRunLater ==
    [][/\ TIMESTAMP_SIG' # TIMESTAMP_SIG
            => /\ PLAYERSTATE_SIG' = PLAYERSTATE_SIG
               /\ video' = video
               /\ buildVideoPlayer' = buildVideoPlayer
               /\ Armed(pauseWatcher) => QueuedNext("pauseWatcher")
               /\ Armed(tsWatcher) => QueuedNext("tsWatcher")
       /\ PLAYERSTATE_SIG' # PLAYERSTATE_SIG
            => /\ video' = video
               /\ Armed(playWatcher) => QueuedNext("playWatcher")]_vars

\* C26 happens: a click has moved the playhead during playback; the bodies
\* of both playhead observers wait in the queue, the state is still PLAYING
\* and the element still plays
C26_Witness ==
    /\ lastOp.name = "handleMouseDown"
    /\ PLAYERSTATE_SIG = PLAYING
    /\ ~video.paused
    /\ Queued("pauseWatcher")
    /\ Queued("tsWatcher")

\* C27: no observer goes dead.  A watcher that watches its signal is either
\* armed or has its body waiting in the microtask queue, and whenever one of
\* the three watchers has been notified its body eventually runs and leaves
\* it armed again, so that the next write notifies it.
C27_ObserversStayAlive ==
    /\ [](pauseWatcher.watching /\ (Armed(pauseWatcher) \/ Queued("pauseWatcher")))
    /\ [](tsWatcher.watching => Armed(tsWatcher) \/ Queued("tsWatcher"))
    /\ [](playWatcher.watching => Armed(playWatcher) \/ Queued("playWatcher"))
    /\ pauseWatcher.dirty ~> Armed(pauseWatcher)
    /\ tsWatcher.dirty ~> Armed(tsWatcher)
    /\ playWatcher.dirty ~> Armed(playWatcher)

\* C27 happens: during playback the timer's write has been handled by the
\* player's observer, after the play-state observer handled the play click,
\* and all three watchers are armed again
C27_Witness ==
    /\ Idle
    /\ lastOp.name = "tsWatcher"
    /\ TIMESTAMP_SIG.source = PLAYER_COMPONENT
    /\ PLAYERSTATE_SIG = PLAYING
    /\ Armed(pauseWatcher)
    /\ Armed(tsWatcher)
    /\ Armed(playWatcher)

\* C28: every write of the playhead replaces value and source together.  A
\* step that changes TIMESTAMP_SIG is a step of one of the four writers, and
\* the record held afterwards is that writer's value with that writer's
\* source: the click's time with USER, the element's position with
\* PLAYER_COMPONENT, 0 with USER for a date change, the first range's start
\* with DVR_UI_TIMELINE_COMPONENT.
C28_WritesAreAtomic ==
    [][TIMESTAMP_SIG' # TIMESTAMP_SIG
         => \/ /\ lastOp'.name = "handleMouseDown"
               /\ TIMESTAMP_SIG' =
                     [value |-> SeekValue(TempPlayerTime(lastOp'.arg + leftOffset,
                                                         TimelineWidthOf(zoomLevel))),
                      source |-> USER]
            \/ /\ lastOp'.name = "interval"
               /\ TIMESTAMP_SIG' =
                     [value |-> player.videoStart + video.currentTime,
                      source |-> PLAYER_COMPONENT]
            \/ /\ lastOp'.name = "handleDateChange"
               /\ TIMESTAMP_SIG' = [value |-> 0, source |-> USER]
            \/ /\ lastOp'.name = "buildTimelineTask"
               /\ \E args \in dvr.timelineRuns \ dvr'.timelineRuns :
                     TIMESTAMP_SIG' = [value |-> FirstRangeStart(args),
                                       source |-> DVR_UI_TIMELINE_COMPONENT]]_vars

\* C28 happens: a later segment plays after a click into it, and the timer
\* has replaced the click's record by the element's position and its own
\* source
C28_Witness ==
    /\ lastOp.name = "interval"
    /\ lastOp.tag = "write"
    /\ player.videoStart > 0
    /\ TIMESTAMP_SIG = [value |-> player.videoStart + video.currentTime,
                        source |-> PLAYER_COMPONENT]

(***************************************************************************)
(* Claims about the day query                                              *)
(***************************************************************************)
\* the stored videos of camera args[1] that overlap day args[2], in the
\* order of their start
OverlappingDay(args) ==
    SelectSeq(VideoFilesOf(args[1]),
              LAMBDA v : /\ v.vidStartEpoch < DayEpoch(args[2]) + SECONDS_IN_DAY
                         /\ DayEpoch(args[2]) < v.vidEndEpoch)

\* C25: when the day query for (camera, day) answers, the task's value is
\* the list of every stored video of that camera that overlaps the day,
\* videos that straddle the day's start or end included, in ascending order
\* of start.
C25_DayQueryOverlapping ==
    [][GetVideosDone
         => getVideosOfDay'.value = OverlappingDay(getVideosOfDay.query)]_vars

(***************************************************************************)
(* Claims about the derived timeline width and the minimal range list      *)
(***************************************************************************)
\* the seconds covered by a list of ranges or segments with the given bounds
Covered(bounds) ==
    UNION {bounds[i][1]..bounds[i][2] : i \in DOMAIN bounds}

\* C29: for every list of segments sorted ascending by start, the coalesced
\* list of time ranges is sorted ascending, no two of its ranges overlap or
\* touch, and the ranges cover exactly what the segments cover.
C29_CoalesceMinimal ==
    lastOp.name = "coalesce" =>
        /\ \A i \in 1..(Len(coalesceOut) - 1) :
              coalesceOut[i].end < coalesceOut[i + 1].start
        /\ Covered([i \in DOMAIN coalesceOut |->
                       <<coalesceOut[i].start, coalesceOut[i].end>>])
             = Covered([i \in DOMAIN coalesceIn |->
                           <<coalesceIn[i].vidStartEpoch,
                             coalesceIn[i].vidEndEpoch>>])

\* C30: in every state of the timeline component, the initial one included,
\* timelineWidth is 24 * baseZoomLevel * zoomLevel.
C30_WidthDerivedFromZoom ==
    timelineWidth * ZoomUnit = 24 * baseZoomLevel * zoomLevel

(***************************************************************************)
(* Claims about the zoom bounds                                            *)
(***************************************************************************)
\* C31: for every viewport width the 24-hour strip at minZoomLevel is exactly
\* as wide as the viewport, maxZoomLevel is 6 times the base scale whatever
\* the viewport, and minZoomLevel <= maxZoomLevel.
C31_ZoomBoundsAsSpecified ==
    /\ TimelineWidthOf(minZoomLevel) = clientWidth
    /\ maxZoomLevel = 6 * ZoomUnit
    /\ minZoomLevel <= maxZoomLevel

(***************************************************************************)
(* Claims about a failing day query                                        *)
(***************************************************************************)
\* C32: when the day query rejects, getVideosOfDay enters its error state
\* and neither that step nor the microtasks it starts write TIMESTAMP_SIG;
\* an update of the player that finds a camera or day other than the one of
\* the task's previous run starts the task again, whatever its status, and
\* that run's query is sent; so whenever the page is at rest the task has
\* run for the current selection, and if it is complete its value is the
\* list of that selection.
C32_FailedQueryIsolated ==
    /\ [][/\ GetVideosFailed \/ ~Idle => TIMESTAMP_SIG' = TIMESTAMP_SIG
          /\ GetVideosFailed => getVideosOfDay'.status = "ERROR"
          /\ (PlayerUpdateRun /\ getVideosOfDay.prevArgs # PlayerArgs)
                => /\ getVideosOfDay'.status = "PENDING"
                   /\ getVideosOfDay'.prevArgs = PlayerArgs
                   /\ QueuedNext("dayTask")
          /\ (DayTaskRun /\ Head(microtasks).latest)
                => getVideosOfDay'.query = Head(microtasks).args]_vars
    /\ [](Idle /\ dvr.mounted
            => /\ getVideosOfDay.prevArgs = PlayerArgs
               /\ getVideosOfDay.status = "COMPLETE"
                     => getVideosOfDay.value = VideosOfDay(PlayerArgs))

\* C32 happens: the query for the first camera was rejected (the task's
\* value is still undefined), the user then selected the second camera, the
\* task runs again and its query for the second camera has been sent
C32_Witness ==
    /\ Idle
    /\ getVideosOfDay.value = Undefined
    /\ getVideosOfDay.status = "PENDING"
    /\ getVideosOfDay.query = <<"cam2", "d1">>
    /\ PlayerArgs = <<"cam2", "d1">>

(***************************************************************************)
(* Claims about the teardown of the timeline                               *)
(***************************************************************************)
\* C33: while the timeline element is disconnected none of its keydown
\* listeners is registered on window, however often it was connected and
\* disconnected before, and no step changes its leftOffset or zoomLevel.
C33_TimelineTeardownDeregisters ==
    /\ [](~keyboard.connected => keyboard.listeners = 0)
    /\ [][~keyboard.connected
            => leftOffset' = leftOffset /\ zoomLevel' = zoomLevel]_vars

(***************************************************************************)
(* Claims about seeking, polling and playback across segments              *)
(***************************************************************************)
\* C34: whenever the page is mounted and at rest (no microtask, query or
\* task run outstanding) with the playhead inside a segment of the selected
\* camera and day, that segment is loaded and its <video> element is in the
\* tree.
C34_ResolutionReachesSegment ==
    (Settled /\ SegmentOfSelection # <<>>)
        => /\ player.playerRef
           /\ player.currentVideoRef = SegmentOfSelection[1].filePath
           /\ player.oldVideoRef = SegmentOfSelection[1].filePath

\* C35: the timer cannot undo a manual seek.  A re-resolution never waits
\* for a task of the event loop, so no tick fires before it is complete;
\* when it has loaded the new segment the element's position is the
\* playhead, so the next tick finds nothing to publish; and no tick ever
\* replaces a USER value that lies outside the window of the loaded segment.
C35_SeekNotUndone ==
    /\ [](buildVideoPlayer.status = "PENDING" => ~Idle)
    /\ [][/\ (lastOp'.name = "updated" /\ lastOp'.calls # <<>>)
                => /\ TIMESTAMP_SIG' = TIMESTAMP_SIG
                   /\ player'.videoStart + video'.currentTime
                         = TIMESTAMP_SIG.value
          /\ (lastOp'.name = "interval" /\ lastOp'.tag = "write")
                => ~(/\ TIMESTAMP_SIG.source = USER
                     /\ ~timestampWithinVideo)]_vars

\* C35 happens: a click outside the loaded segment has been resolved to a
\* later segment while the timer runs, and the playhead is still the
\* click's value
C35_Witness ==
    /\ lastOp.name = "updated"
    /\ lastOp.calls # <<>>
    /\ player.requestUpdateRef
    /\ TIMESTAMP_SIG.source = USER
    /\ player.videoStart > 0
    /\ TIMESTAMP_SIG.value > player.videoStart
    /\ video.currentTime = TIMESTAMP_SIG.value - player.videoStart

\* the timer has just published the end of the loaded segment during
\* playback, nothing of the start-up is outstanding, and a segment of the
\* day starts where the loaded one ends
ReachedEndOfSegment ==
    /\ lastOp.name = "interval"
    /\ lastOp.tag = "write"
    /\ PLAYERSTATE_SIG = PLAYING
    /\ TIMESTAMP_SIG.value = player.videoEnd
    /\ dvr.timelineRuns = {}
    /\ getVideosOfDay.query = <<>>
    /\ ~dvr.camNamesQuery
    /\ \E i \in DOMAIN getVideosOfDay.value :
          getVideosOfDay.value[i].vidDayStart = player.videoEnd

\* the segment that starts at the playhead is loaded and plays
NextSegmentPlays ==
    /\ player.playerRef
    /\ player.videoStart = TIMESTAMP_SIG.value
    /\ player.oldVideoRef = player.currentVideoRef
    /\ \E i \in DOMAIN getVideosOfDay.value :
          /\ getVideosOfDay.value[i].vidDayStart = player.videoStart
          /\ getVideosOfDay.value[i].filePath = player.currentVideoRef
    /\ PLAYERSTATE_SIG = PLAYING
    /\ ~video.paused
    /\ lastOp = Op("handleCanPlay", PLAYING, <<"play">>, 0)

\* C36: when during playback the timer publishes the end A.dayEnd of the
\* loaded segment and a segment B of the day starts there, then B gets
\* loaded, PLAYERSTATE_SIG stays PLAYING all the while, and B is played by
\* the play() call of its canplay handler.
C36_PlaybackContinues ==
    /\ ReachedEndOfSegment ~> NextSegmentPlays
    /\ [][(~Idle /\ TIMESTAMP_SIG.source = PLAYER_COMPONENT)
             => PLAYERSTATE_SIG' = PLAYERSTATE_SIG]_vars

\* C36 happens: the second segment plays from its start after the first one
\* was played to its end
C36_Witness ==
    /\ NextSegmentPlays
    /\ TIMESTAMP_SIG = [value |-> VideoLength, source |-> PLAYER_COMPONENT]
    /\ player.videoStart = VideoLength
    /\ video.currentTime = 0

\* updated() has run at least once: its first run starts the day task
HasBeenUpdated == getVideosOfDay.status # "INITIAL"

\* C37: the player component never has two live intervals, whatever the
\* order of updated(), requestAnimationFrame(), disconnects and reconnects;
\* requestUpdateRef holds a timer exactly when one is live; and a component
\* that is connected and has been updated has exactly one once its update
\* has run.
C37_OnePollingTimer ==
    /\ intervals \in {0, 1}
    /\ player.requestUpdateRef <=> intervals = 1
    /\ (Idle /\ ~player.disconnected /\ HasBeenUpdated) => intervals = 1

\* C37 happens: the component was disconnected and reconnected twice and
\* updated again, requestAnimationFrame() was then called, and one interval
\* is live
C37_Witness ==
    /\ lastOp.name = "requestAnimationFrame"
    /\ lastOp.tag = "return"
    /\ gestures = 2
    /\ ~player.disconnected
    /\ tsWatcher.watching
    /\ buildVideoPlayer.status = "COMPLETE"
    /\ intervals = 1

\* C38: every row PushCamDataToDatabase has stored is well-formed: it ends
\* one minute after it starts, and its day-relative window starts at or
\* after 0 and is one minute long, also for a video that starts before the
\* day it is listed under.
C38_StoredSegmentsWellFormed ==
    \A camName \in Cameras : \A i \in DOMAIN CAM_DB[camName] :
        LET v == CAM_DB[camName][i]
        IN  /\ v.vidStartEpoch < v.vidEndEpoch
            /\ v.vidEndEpoch = v.vidStartEpoch + VideoLength
            /\ 0 <= v.vidDayStart
            /\ v.vidDayStart < v.vidDayEnd
            /\ v.vidDayEnd - v.vidDayStart = VideoLength

\* C39: the player reads CAM_DB only after bulkAdd has completed: every step
\* in which getVideosOfDay sends its query or receives the answer, and every
\* step in which buildVideoPlayer resolves the segment, is taken with
\* VIDEOS_LOADED resolved, and the player's tasks have not run before that.
C39_QueriesAfterPopulated ==
    /\ [][(DayTaskRun \/ GetVideosDone \/ BuildTaskRun) => VIDEOS_LOADED]_vars
    /\ [](~VIDEOS_LOADED
            => /\ ~dvr.mounted
               /\ getVideosOfDay.status = "INITIAL"
               /\ buildVideoPlayer.status = "INITIAL"
               /\ microtasks = <<>>)

\* C39 happens: bulkAdd replaced what the earlier visit had left by a list
\* with the video at 60 s, and the player's query has returned that list
C39_Witness ==
    /\ lastOp.name = "getVideosOfDay"
    /\ lastOp.tag = "complete"
    /\ VIDEOS_LOADED
    /\ dvr.initialFetch = "COMPLETE"
    /\ CAM_DB["cam1"] = <<Video("d1", 60)>>
    /\ getVideosOfDay.status = "COMPLETE"
    /\ getVideosOfDay.value = <<Video("d1", 60)>>

====
